---- MODULE Spec2Model ----
(***************************************************************************)
(* Canvas interaction engine of the soccer-board application.              *)
(*                                                                         *)
(* The repository holds several variants of the HtmlBoard component.       *)
(* Three of them are modelled here, each with its own state:               *)
(*   - the lanes/notes variant (src/unnamed/part_003, lines 1-1028):       *)
(*     variables placed, objects, selectedIds, activeId, dragRef, box, ... *)
(*   - the frame-throttled variant (src/lib/board/HtmlBoard.tsx):          *)
(*     variables hPlaced, ...                                              *)
(*   - the click-to-open variants (src/unnamed/part_001, part_004).        *)
(* React state is modelled as rendered between two events: a handler reads *)
(* the unprimed value of a state variable (its render closure) and a ref   *)
(* mirrors the prop it follows.                                            *)
(***************************************************************************)
EXTENDS Integers, Sequences, FiniteSets, TLC

\* ---------------------------------------------------------------- constants

DEFAULT_W == 260
DEFAULT_H == 92
OBJ_MIN_W == 80
OBJ_MIN_H == 40
CanvasWidth == 3000
CanvasHeight == 2000
H_DEFAULT_W == 280
H_DEFAULT_H == 96

\* an absent (undefined) or non-finite w / h of a PlacedPlayer
NoSize == -1
\* activeId === null
NoId == 0

LARGE_CARD == [w |-> 260, h |-> 92]
MEDIUM_CARD == [w |-> 210, h |-> 72]
SMALL_CARD == [w |-> 150, h |-> 52]

CardSizeModes == {"large", "medium", "small"}

\* ---------------------------------------------------------------- bounds

\* ids handed out to dropped cards and created objects (ids are never reused)
MaxNewIds == 1
\* drops delivered in one behaviour
MaxDrops == 1
\* pointer-downs delivered in one behaviour
MaxDowns == 2
\* changes committed to the board page in one behaviour
MaxChanges == 3
\* wheel events delivered in one behaviour
MaxWheels == 3

\* ---------------------------------------------------------------- state

VARIABLES
  editMode,      \* prop
  cardSizeMode,  \* prop
  tool,          \* prop, owned by the caller
  placed,        \* prop placed / placedRef.current: sequence of cards
  objects,       \* prop objects / objectsRef.current: sequence of board objects
  selectedIds,   \* state
  activeId,      \* state
  dragRef,       \* ref: the active DragState or NoDrag
  box,           \* state: the selection box or NoBox
  pointersRef,   \* ref: tracked touch pointers, in insertion order
  twoFingerRef,  \* ref: NoTwoFinger or [lastCx, lastCy]
  scroll,        \* scrollLeft / scrollTop of the scroll container
  down,          \* environment: pointers currently pressed
  nextId,        \* environment: ids handed out so far
  nDrops,        \* environment: drops delivered so far
  nDowns,        \* environment: pointer-downs so far
  hPlaced,       \* frame-throttled variant: prop placed / placedRef.current
  draggingRef,   \* frame-throttled variant, ref: the active drag or NoDragging
  dragPreview,   \* frame-throttled variant, state: the previewed position or NoPreview
  rafQueued,     \* frame-throttled variant: animation-frame callbacks not yet run
  playerModal,   \* click-to-open variant, state: id of the card whose modal is open
  captured,      \* user agent: pointers whose events an element has captured
  backgroundUrl, \* board page, state: the background image URL
  saveTimer,     \* board page, ref: id of the last autosave timer, 0 for null
  timers,        \* user agent: timers set and neither run nor cleared
  persistCalls,  \* board page: the calls of persistBoardData made so far
  nChanges,      \* environment: changes committed to the board page so far
  scale,         \* pan/zoom stage, state: the zoom factor
  offset,        \* pan/zoom stage, state: the stage position
  spaceDown,     \* pan/zoom stage, state: the space bar is held
  nWheels,       \* environment: wheel events so far
  gest,          \* history: the gesture in progress, since its pointer-down
  ev,            \* history: the event handled last, with its inputs
  cb             \* history: callback invocations made by the event handled last

aVars == <<tool, placed, objects, selectedIds, activeId, dragRef, box,
           pointersRef, twoFingerRef, scroll, down, captured>>
pageVars == <<backgroundUrl, saveTimer, timers, persistCalls, nChanges>>
stageVars == <<scale, offset, spaceDown, nWheels>>
hVars == <<hPlaced>>
pVars == <<draggingRef, dragPreview, rafQueued, playerModal>>
vars == <<editMode, cardSizeMode, aVars, nextId, nDrops, nDowns, hVars, pVars, pageVars,
          stageVars, gest, ev, cb>>

NoDrag == [mode |-> "none"]
NoBox == [x1 |-> -1, y1 |-> -1, x2 |-> -1, y2 |-> -1, on |-> FALSE]
NoTwoFinger == [active |-> FALSE, lastCx |-> 0, lastCy |-> 0]
NoCalls == [placed |-> 0, objects |-> 0, tool |-> 0, open |-> 0]
NoDragging == [id |-> 0]
NoPreview == [id |-> 0]
NoGesture == [variant |-> "none"]

\* the board page and the stage before any change: useState("") / useRef(null),
\* useState(1) / useState({ x: 0, y: 0 }) / useState(false)
InitPage ==
  /\ backgroundUrl = ""
  /\ saveTimer = 0
  /\ timers = {}
  /\ persistCalls = << >>
  /\ nChanges = 0
InitStage ==
  /\ scale = [n |-> 1, d |-> 1]
  /\ offset = [x |-> [n |-> 0, d |-> 1], y |-> [n |-> 0, d |-> 1]]
  /\ spaceDown = FALSE
  /\ nWheels = 0

\* ---------------------------------------------------------------- geometry

Min(a, b) == IF a < b THEN a ELSE b
Max(a, b) == IF a > b THEN a ELSE b

\* clamp without its lower bound
clampNoLower(n, min, max) == Min(max, n)
\* Math.max(min, Math.min(max, n)): the lower bound wins when min > max
clamp(n, min, max) == Max(min, Min(max, n))

\* Number.isFinite(p.w) ? p.w : DEFAULT_W
\* a missing size taken as it is stored
finiteOrAsStored(v, dflt) == v
finiteOr(v, dflt) == IF v = NoSize THEN dflt ELSE v

\* canvas.getBoundingClientRect(): the scroll container sits at the viewport
\* origin, so the canvas rectangle starts at (-scrollLeft, -scrollTop)
clientToBoard(cx, cy) == [x |-> cx + scroll.left, y |-> cy + scroll.top]

\* ---------------------------------------------------------------- drag payload

\* What a DataTransfer channel holds: nothing, text that is not JSON, or JSON
\* text: null, an object without name and id, an object with a name.
RawVals == {"", "bad", "null", "{}", "{name}"}
\* the application/json channel, written by one of the roster pages only
JsonRawVals == {"", "bad", "{name}"}

JsNull == [kind |-> "null", hasName |-> FALSE, hasId |-> FALSE]

\* JSON.parse(raw): ok = FALSE when it throws
JSONParse(raw) ==
  CASE raw = "null" -> [ok |-> TRUE, val |-> JsNull]
    [] raw = "{}" -> [ok |-> TRUE, val |-> [kind |-> "object", hasName |-> FALSE, hasId |-> FALSE]]
    [] raw = "{name}" -> [ok |-> TRUE, val |-> [kind |-> "object", hasName |-> TRUE, hasId |-> FALSE]]
    [] OTHER -> [ok |-> FALSE, val |-> JsNull]

\* a test that lets every decoded value through
FalsyNever(val) == FALSE
\* !payload
Falsy(val) == val.kind = "null"

\* a || b || c on strings: the first non-empty one
FirstNonEmpty(a, b, c) == IF a # "" THEN a ELSE IF b # "" THEN b ELSE c

\* parseDragPayload that reads the custom channel only
parseDragPayloadCustomOnly(custom, json, text) ==
  IF custom = "" THEN JsNull
  ELSE IF JSONParse(custom).ok THEN JSONParse(custom).val ELSE JsNull
\* lanes/notes variant: one candidate, the first non-empty channel
parseDragPayload(custom, json, text) ==
  LET raw == FirstNonEmpty(custom, json, text) IN
  IF raw = "" THEN JsNull
  ELSE IF JSONParse(raw).ok THEN JSONParse(raw).val ELSE JsNull

\* frame-throttled variant: each channel in turn, a failed parse falls through
readPayload(custom, json, text) ==
  IF custom # "" /\ JSONParse(custom).ok THEN JSONParse(custom).val
  ELSE IF json # "" /\ JSONParse(json).ok THEN JSONParse(json).val
  ELSE IF text # "" /\ JSONParse(text).ok THEN JSONParse(text).val
  ELSE JsNull

\* e.dataTransfer.types lists a channel that holds data
canAcceptDrag(custom, json, text) == custom # "" \/ json # "" \/ text # ""

\* ---------------------------------------------------------------- drop

NewId == 6 + nextId

effCardSize(mode) ==
  IF mode = "small" THEN SMALL_CARD ELSE IF mode = "medium" THEN MEDIUM_CARD ELSE LARGE_CARD

DropEvent(variant, custom, json, text, cx, cy, before) ==
  [type |-> "drop", variant |-> variant, custom |-> custom, json |-> json, text |-> text,
   cx |-> cx, cy |-> cy, before |-> before]

\* the card onDrop builds, bugs of placement included
droppedCard(pt, eff) ==
  [id |-> NewId,
   x |-> clamp(pt.x - eff.w \div 2, 0, CanvasWidth - eff.w),
   y |-> clamp(pt.y - eff.h \div 2, 0, CanvasHeight - eff.h),
   w |-> eff.w, h |-> eff.h]


\* onDrop that accepts a drop in view mode too
onDropAnyMode(custom, json, text, cx, cy) ==
  /\ nextId < MaxNewIds
  /\ nDrops < MaxDrops
  /\ nDrops' = nDrops + 1
  /\ ev' = DropEvent("A", custom, json, text, cx, cy, Len(placed))
  /\ LET payload == parseDragPayload(custom, json, text)
         pt == clientToBoard(cx, cy)
         eff == effCardSize(cardSizeMode)
     IN
     IF Falsy(payload)
     THEN /\ cb' = NoCalls
          /\ UNCHANGED <<placed, selectedIds, activeId, nextId>>
     ELSE /\ placed' = Append(placed, droppedCard(pt, eff))
          /\ cb' = [NoCalls EXCEPT !.placed = 1]
          /\ activeId' = NewId
          /\ selectedIds' = {NewId}
          /\ nextId' = nextId + 1
  /\ UNCHANGED <<editMode, cardSizeMode, tool, objects, dragRef, box, pointersRef,
                 twoFingerRef, scroll, down, captured, nDowns, hVars, pVars>>
\* onDrop of the lanes/notes variant
onDrop(custom, json, text, cx, cy) ==
  /\ nextId < MaxNewIds
  /\ nDrops < MaxDrops
  /\ nDrops' = nDrops + 1
  /\ ev' = DropEvent("A", custom, json, text, cx, cy, Len(placed))
  /\ LET payload == parseDragPayload(custom, json, text)
         pt == clientToBoard(cx, cy)
         eff == effCardSize(cardSizeMode)
     IN
     IF ~editMode
     THEN /\ cb' = NoCalls
          /\ UNCHANGED <<placed, selectedIds, activeId, nextId>>
     ELSE IF Falsy(payload)
     THEN /\ cb' = NoCalls
          /\ UNCHANGED <<placed, selectedIds, activeId, nextId>>
     ELSE /\ placed' = Append(placed, droppedCard(pt, eff))
          /\ cb' = [NoCalls EXCEPT !.placed = 1]
          /\ activeId' = NewId
          /\ selectedIds' = {NewId}
          /\ nextId' = nextId + 1
  /\ UNCHANGED <<editMode, cardSizeMode, tool, objects, dragRef, box, pointersRef,
                 twoFingerRef, scroll, down, captured, nDowns, hVars, pVars>>

\* boardRef.current.getBoundingClientRect() of the frame-throttled variant: the
\* board sits right of the roster column and below the page header
HBoardRect == [left |-> 320, top |-> 64]
\* board.clientWidth / board.clientHeight: the size the page layout gives the board
HBoardWidth == 1200
HBoardHeight == 800
hClientToBoard(cx, cy) == [x |-> cx - HBoardRect.left, y |-> cy - HBoardRect.top]

\* onDrop of the frame-throttled variant
hOnDrop(custom, json, text, cx, cy) ==
  /\ nextId < MaxNewIds
  /\ nDrops < MaxDrops
  /\ nDrops' = nDrops + 1
  /\ ev' = DropEvent("H", custom, json, text, cx, cy, Len(hPlaced))
  /\ LET payload == readPayload(custom, json, text)
         pt == hClientToBoard(cx, cy)
     IN
     IF ~editMode \/ ~canAcceptDrag(custom, json, text) \/ Falsy(payload)
     THEN /\ cb' = NoCalls
          /\ UNCHANGED <<hPlaced, nextId>>
     ELSE /\ hPlaced' = Append(hPlaced, [id |-> NewId, x |-> pt.x, y |-> pt.y,
                                         w |-> H_DEFAULT_W, h |-> H_DEFAULT_H])
          /\ cb' = [NoCalls EXCEPT !.placed = 1]
          /\ nextId' = nextId + 1
  /\ UNCHANGED <<editMode, cardSizeMode, aVars, nDowns, pVars>>

\* ---------------------------------------------------------------- boards

Card(id, x, y, w, h) == [id |-> id, x |-> x, y |-> y, w |-> w, h |-> h]
Obj(id, kind, x, y, w, h) == [id |-> id, kind |-> kind, x |-> x, y |-> y, w |-> w, h |-> h]

\* client points of a drop on the canvas, inside the scroll container: the
\* specification's example, a point near the origin and one near the far corner
DropPoints == {<<500, 500>>, <<10, 10>>, <<2950, 1970>>}
\* the same for the frame-throttled board, inside its rectangle
HDropPoints == {<<820, 564>>, <<330, 74>>, <<1510, 854>>}

InitDrop ==
  /\ editMode \in BOOLEAN
  /\ cardSizeMode \in CardSizeModes
  /\ tool = "select"
  /\ placed \in {<< >>, <<Card(1, 0, 0, 260, 92)>>}
  /\ objects = << >>
  /\ selectedIds = {}
  /\ activeId = NoId
  /\ dragRef = NoDrag
  /\ box = NoBox
  /\ pointersRef = << >>
  /\ twoFingerRef = NoTwoFinger
  /\ scroll \in {[left |-> 0, top |-> 0], [left |-> 40, top |-> 20]}
  /\ down = {}
  /\ nextId = 0
  /\ nDrops = 0
  /\ nDowns = 0
  /\ hPlaced = << >>
  /\ draggingRef = NoDragging
  /\ dragPreview = NoPreview
  /\ rafQueued = 0
  /\ playerModal = NoId
  /\ gest = NoGesture
  /\ captured = {}
  /\ InitPage
  /\ InitStage
  /\ ev = [type |-> "init"]
  /\ cb = NoCalls

NextDrop ==
  \/ \E custom \in RawVals, json \in JsonRawVals, text \in RawVals, pt \in DropPoints :
       onDrop(custom, json, text, pt[1], pt[2]) /\ UNCHANGED <<gest, pageVars, stageVars>>
  \/ \E custom \in RawVals, json \in JsonRawVals, text \in RawVals, pt \in HDropPoints :
       hOnDrop(custom, json, text, pt[1], pt[2]) /\ UNCHANGED <<gest, pageVars, stageVars>>

SpecDrop == InitDrop /\ [][NextDrop]_vars

\* ---------------------------------------------------------------- pointers

Pointers == {"m", "t1", "t2"}
pointerType(p) == IF p = "m" THEN "mouse" ELSE "touch"
Mods == {"none", "meta", "shift"}

\* the visible part of the scroll container
ViewportWidth == 2960
ViewportHeight == 1980
\* the browser keeps scrollLeft / scrollTop inside the scrollable range
scrollBy(dx, dy) ==
  [left |-> clamp(scroll.left - dx, 0, CanvasWidth - ViewportWidth),
   top |-> clamp(scroll.top - dy, 0, CanvasHeight - ViewportHeight)]

PointerEvent(type, p, id, mod, button) ==
  [type |-> type, ptr |-> p, id |-> id, mod |-> mod, button |-> button]

\* a user agent that keeps a capture until it is released by a call
implicitReleaseNever(p) == captured' = captured
\* The user agent releases the capture of a pointer after it has dispatched the
\* pointer's pointerup or pointercancel, whatever the listeners did.
implicitRelease(p) == captured' = captured \ {p}

\* Map.prototype.set / delete on pointersRef.current (insertion order kept)
MapHas(m, p) == \E i \in 1..Len(m) : m[i].id = p
MapSet(m, p, x, y) ==
  IF MapHas(m, p)
  THEN [i \in 1..Len(m) |-> IF m[i].id = p THEN [id |-> p, x |-> x, y |-> y] ELSE m[i]]
  ELSE Append(m, [id |-> p, x |-> x, y |-> y])
\* a delete that leaves the map as it is
MapKeep(m, p) == m
MapDelete(m, p) == SelectSeq(m, LAMBDA e : e.id # p)

\* the centre of the first two tracked touches
Centre(m) == [x |-> (m[1].x + m[2].x) \div 2, y |-> (m[1].y + m[2].y) \div 2]

\* the head of onPointerDownCanvas: track a touch pointer, start two-finger mode
trackTouch(p, cx, cy) ==
  IF pointerType(p) = "touch"
  THEN LET m == MapSet(pointersRef, p, cx, cy) IN
       /\ pointersRef' = m
       /\ twoFingerRef' = IF Len(m) >= 2
                          THEN [active |-> TRUE, lastCx |-> Centre(m).x, lastCy |-> Centre(m).y]
                          ELSE twoFingerRef
  ELSE UNCHANGED <<pointersRef, twoFingerRef>>

\* ---------------------------------------------------------------- selection

placedIds == {placed[i].id : i \in 1..Len(placed)}
objectIds == {objects[i].id : i \in 1..Len(objects)}
cardOf(id) == CHOOSE c \in {placed[i] : i \in 1..Len(placed)} : c.id = id
objectOf(id) == CHOOSE o \in {objects[i] : i \in 1..Len(objects)} : o.id = id

\* ensureSelectionOnPointerDown whose toggle may empty the selection
selectionOnPointerDownToggleMayEmpty(id, mod) ==
  CASE mod = "meta" -> IF id \in selectedIds THEN selectedIds \ {id} ELSE selectedIds \cup {id}
    [] mod = "shift" -> selectedIds \cup {id}
    [] OTHER -> {id}
\* ensureSelectionOnPointerDown that adds the entity on a plain click too
selectionOnPointerDownAdditive(id, mod) ==
  CASE mod = "meta" ->
         LET next == IF id \in selectedIds THEN selectedIds \ {id} ELSE selectedIds \cup {id}
         IN IF next # {} THEN next ELSE {id}
    [] OTHER -> selectedIds \cup {id}
\* the selection ensureSelectionOnPointerDown sets
selectionOnPointerDown(id, mod) ==
  CASE mod = "meta" ->
         LET next == IF id \in selectedIds THEN selectedIds \ {id} ELSE selectedIds \cup {id}
         IN IF next # {} THEN next ELSE {id}
    [] mod = "shift" -> selectedIds \cup {id}
    [] OTHER -> {id}

\* getMoveIds reads selectedIds of the render the handler was created in
getMoveIds(id) == IF id \in selectedIds THEN selectedIds ELSE {id}

Rect(e) == [x |-> e.x, y |-> e.y, w |-> e.w, h |-> e.h]

\* snapshotOrigins: a card wins over an object of the same id
originPlayersOf(ids) ==
  [id \in ids \cap placedIds |->
     [x |-> cardOf(id).x, y |-> cardOf(id).y,
      w |-> finiteOr(cardOf(id).w, DEFAULT_W), h |-> finiteOr(cardOf(id).h, DEFAULT_H)]]
originObjectsOf(ids) ==
  [id \in (ids \cap objectIds) \ placedIds |-> Rect(objectOf(id))]

DragState(p, ids, mode, pt, cx, cy) ==
  [mode |-> mode, pointerId |-> p, ids |-> ids, startX |-> pt.x, startY |-> pt.y,
   moved |-> FALSE, lastClientX |-> cx, lastClientY |-> cy,
   originPlayers |-> originPlayersOf(ids), originObjects |-> originObjectsOf(ids)]

\* ---------------------------------------------------------------- pointer down

\* what every pointer-down handler leaves alone
DownFrame ==
  /\ nDowns < MaxDowns
  /\ nDowns' = nDowns + 1
  /\ UNCHANGED <<editMode, cardSizeMode, scroll, nDrops, hVars, pVars>>

\* a pointer-down that no element handler stopped reaches onPointerDownCanvas
\* with a target other than the canvas: the touch is tracked and nothing else
bubbleToCanvas(p, cx, cy) ==
  /\ trackTouch(p, cx, cy)
  /\ cb' = NoCalls
  /\ UNCHANGED <<tool, placed, objects, selectedIds, activeId, dragRef, box, nextId,
                 captured>>

\* onPointerDown of a card body or a board object
beginMoveAny(p, id, mod, button, cx, cy) ==
  /\ p \notin down
  /\ down' = down \cup {p}
  /\ ev' = PointerEvent("downItem", p, id, mod, button)
  /\ DownFrame
  /\ IF ~editMode \/ button # 0 \/ (pointerType(p) = "touch" /\ Len(pointersRef) >= 2)
     THEN bubbleToCanvas(p, cx, cy)
     ELSE /\ selectedIds' = selectionOnPointerDown(id, mod)
          /\ activeId' = id
          /\ dragRef' = DragState(p, getMoveIds(id), "move", clientToBoard(cx, cy), cx, cy)
          /\ captured' = captured \cup {p}
          /\ cb' = NoCalls
          /\ UNCHANGED <<tool, placed, objects, box, pointersRef, twoFingerRef, nextId>>

\* onPointerDown of the resize handle of a board object (rendered in edit mode
\* only; the handle of a card is never rendered). With another button the event
\* bubbles through beginMoveAny of the object, which returns too.
beginResizeAny(p, id, button, cx, cy) ==
  /\ editMode
  /\ p \notin down
  /\ down' = down \cup {p}
  /\ ev' = PointerEvent("downHandle", p, id, "none", button)
  /\ DownFrame
  /\ IF button # 0
     THEN bubbleToCanvas(p, cx, cy)
     ELSE /\ activeId' = id
          /\ selectedIds' = {id}
          /\ dragRef' = DragState(p, {id}, "resize", clientToBoard(cx, cy), cx, cy)
          /\ captured' = captured \cup {p}
          /\ cb' = NoCalls
          /\ UNCHANGED <<tool, placed, objects, box, pointersRef, twoFingerRef, nextId>>

\* onPointerDown of the photo of a card (not rendered on small cards)
onPointerDownPhoto(p, id, mod) ==
  /\ cardSizeMode # "small"
  /\ p \notin down
  /\ down' = down \cup {p}
  /\ ev' = PointerEvent("downPhoto", p, id, mod, 0)
  /\ DownFrame
  /\ selectedIds' = selectionOnPointerDown(id, mod)
  /\ activeId' = id
  /\ cb' = [NoCalls EXCEPT !.open = 1]
  /\ UNCHANGED <<tool, placed, objects, dragRef, box, pointersRef, twoFingerRef, nextId,
                 captured>>

\* createObject that puts the object at the pointer without clamping
newObjectUnclamped(kind, x, y) ==
  CASE kind = "lane" -> [id |-> NewId, kind |-> kind, x |-> x, y |-> y, w |-> 600, h |-> 200]
    [] kind = "note" -> [id |-> NewId, kind |-> kind, x |-> x, y |-> y, w |-> 220, h |-> 160]
    [] OTHER -> [id |-> NewId, kind |-> "text", x |-> x, y |-> y, w |-> 260, h |-> 120]
\* the object createObject appends
newObject(kind, x, y) ==
  CASE kind = "lane" ->
         [id |-> NewId, kind |-> kind, x |-> clamp(x, 0, CanvasWidth - 600),
          y |-> clamp(y, 0, CanvasHeight - 200), w |-> 600, h |-> 200]
    [] kind = "note" ->
         [id |-> NewId, kind |-> kind, x |-> clamp(x, 0, CanvasWidth - 220),
          y |-> clamp(y, 0, CanvasHeight - 160), w |-> 220, h |-> 160]
    [] OTHER ->
         [id |-> NewId, kind |-> "text", x |-> clamp(x, 0, CanvasWidth - 260),
          y |-> clamp(y, 0, CanvasHeight - 120), w |-> 260, h |-> 120]

\* createObject; the caller sets the tool it is asked for
createObject(kind, x, y) ==
  /\ nextId < MaxNewIds
  /\ nextId' = nextId + 1
  /\ objects' = Append(objects, newObject(kind, x, y))
  /\ activeId' = NewId
  /\ selectedIds' = {NewId}
  /\ tool' = "select"
  /\ cb' = [NoCalls EXCEPT !.objects = 1, !.tool = 1]
  /\ UNCHANGED <<placed, dragRef, box, captured>>

\* onPointerDownCanvas that starts a box-select for touch pointers too
onPointerDownCanvasAnyPointer(p, mod, cx, cy) ==
  /\ p \notin down
  /\ down' = down \cup {p}
  /\ ev' = [type |-> "downCanvas", ptr |-> p, id |-> NoId, mod |-> mod, button |-> 0,
            cx |-> cx, cy |-> cy]
  /\ DownFrame
  /\ trackTouch(p, cx, cy)
  /\ LET pt == clientToBoard(cx, cy) IN
     IF editMode /\ tool # "select"
     THEN createObject(tool, pt.x, pt.y)
     ELSE IF editMode /\ tool = "select" /\ mod = "none"
     THEN /\ dragRef' = [mode |-> "box", pointerId |-> p, ids |-> {}, startX |-> pt.x,
                         startY |-> pt.y, moved |-> FALSE, lastClientX |-> cx,
                         lastClientY |-> cy, originPlayers |-> << >>, originObjects |-> << >>]
          /\ box' = [x1 |-> pt.x, y1 |-> pt.y, x2 |-> pt.x, y2 |-> pt.y, on |-> TRUE]
          /\ captured' = captured \cup {p}
          /\ cb' = NoCalls
          /\ UNCHANGED <<tool, placed, objects, selectedIds, activeId, nextId>>
     ELSE /\ activeId' = NoId
          /\ selectedIds' = {}
          /\ cb' = NoCalls
          /\ UNCHANGED <<tool, placed, objects, dragRef, box, nextId, captured>>

\* onPointerDownCanvas with the canvas itself as target
onPointerDownCanvas(p, mod, cx, cy) ==
  /\ p \notin down
  /\ down' = down \cup {p}
  /\ ev' = [type |-> "downCanvas", ptr |-> p, id |-> NoId, mod |-> mod, button |-> 0,
            cx |-> cx, cy |-> cy]
  /\ DownFrame
  /\ trackTouch(p, cx, cy)
  /\ LET pt == clientToBoard(cx, cy) IN
     IF editMode /\ tool # "select"
     THEN createObject(tool, pt.x, pt.y)
     ELSE IF editMode /\ tool = "select" /\ pointerType(p) # "touch" /\ mod = "none"
     THEN /\ dragRef' = [mode |-> "box", pointerId |-> p, ids |-> {}, startX |-> pt.x,
                         startY |-> pt.y, moved |-> FALSE, lastClientX |-> cx,
                         lastClientY |-> cy, originPlayers |-> << >>, originObjects |-> << >>]
          /\ box' = [x1 |-> pt.x, y1 |-> pt.y, x2 |-> pt.x, y2 |-> pt.y, on |-> TRUE]
          /\ captured' = captured \cup {p}
          /\ cb' = NoCalls
          /\ UNCHANGED <<tool, placed, objects, selectedIds, activeId, nextId>>
     ELSE /\ activeId' = NoId
          /\ selectedIds' = {}
          /\ cb' = NoCalls
          /\ UNCHANGED <<tool, placed, objects, dragRef, box, nextId, captured>>

\* ---------------------------------------------------------------- pointer move

\* Math.hypot(dx, dy) > 2
FartherThan2(dx, dy) == dx * dx + dy * dy > 4


\* a move that adds the pointer's displacement since the last move to the
\* current position of each card of the session
movedPlayersIncremental(d, dx, dy) ==
  LET last == clientToBoard(d.lastClientX, d.lastClientY) IN
  [i \in 1..Len(placed) |->
     IF placed[i].id \in DOMAIN d.originPlayers
     THEN LET o == d.originPlayers[placed[i].id]
              x == clamp(placed[i].x + (d.startX + dx - last.x), 0, CanvasWidth - o.w)
              y == clamp(placed[i].y + (d.startY + dy - last.y), 0, CanvasHeight - o.h)
          IN IF cardSizeMode = "large"
             THEN [placed[i] EXCEPT !.x = x, !.y = y, !.w = o.w, !.h = o.h]
             ELSE [placed[i] EXCEPT !.x = x, !.y = y]
     ELSE placed[i]]
\* a move that shifts every card of the board, in the session or not
movedPlayersAll(d, dx, dy) ==
  [i \in 1..Len(placed) |->
     [placed[i] EXCEPT !.x = clamp(placed[i].x + dx, 0, CanvasWidth - DEFAULT_W),
                       !.y = clamp(placed[i].y + dy, 0, CanvasHeight - DEFAULT_H)]]
\* the arrays a pointer-move of a move session hands to the callbacks
movedPlayers(d, dx, dy) ==
  [i \in 1..Len(placed) |->
     IF placed[i].id \in DOMAIN d.originPlayers
     THEN LET o == d.originPlayers[placed[i].id]
              x == clamp(o.x + dx, 0, CanvasWidth - o.w)
              y == clamp(o.y + dy, 0, CanvasHeight - o.h)
          IN IF cardSizeMode = "large"
             THEN [placed[i] EXCEPT !.x = x, !.y = y, !.w = o.w, !.h = o.h]
             ELSE [placed[i] EXCEPT !.x = x, !.y = y]
     ELSE placed[i]]

\* a move that puts back an object of the session that is no longer on the board
movedObjectsRestoring(d, dx, dy) ==
  LET there == [i \in 1..Len(objects) |->
                  IF objects[i].id \in DOMAIN d.originObjects
                  THEN LET oo == d.originObjects[objects[i].id] IN
                       [objects[i] EXCEPT !.x = clamp(oo.x + dx, 0, CanvasWidth - oo.w),
                                          !.y = clamp(oo.y + dy, 0, CanvasHeight - oo.h)]
                  ELSE objects[i]]
      gone == DOMAIN d.originObjects \ objectIds
  IN IF gone = {} THEN there
     ELSE LET id == CHOOSE g \in gone : TRUE
              oo == d.originObjects[id]
          IN Append(there, [id |-> id, kind |-> "lane",
                            x |-> clamp(oo.x + dx, 0, CanvasWidth - oo.w),
                            y |-> clamp(oo.y + dy, 0, CanvasHeight - oo.h),
                            w |-> oo.w, h |-> oo.h])
\* the objects array a pointer-move of a move session hands to onObjectsChange
movedObjects(d, dx, dy) ==
  [i \in 1..Len(objects) |->
     IF objects[i].id \in DOMAIN d.originObjects
     THEN LET oo == d.originObjects[objects[i].id] IN
          [objects[i] EXCEPT !.x = clamp(oo.x + dx, 0, CanvasWidth - oo.w),
                             !.y = clamp(oo.y + dy, 0, CanvasHeight - oo.h)]
     ELSE objects[i]]


\* a resize that keeps the aspect of the pointer's horizontal displacement
resizedObjectsCoupled(id, oo, dx, dy) ==
  [i \in 1..Len(objects) |->
     IF objects[i].id = id
     THEN [objects[i] EXCEPT !.w = clamp(oo.w + dx, OBJ_MIN_W, CanvasWidth - oo.x),
                             !.h = clamp(oo.h + dx, OBJ_MIN_H, CanvasHeight - oo.y)]
     ELSE objects[i]]

\* a resize without the lower bounds OBJ_MIN_W and OBJ_MIN_H
resizedObjectsNoMinimum(id, oo, dx, dy) ==
  [i \in 1..Len(objects) |->
     IF objects[i].id = id
     THEN [objects[i] EXCEPT !.w = Min(oo.w + dx, CanvasWidth - oo.x),
                             !.h = Min(oo.h + dy, CanvasHeight - oo.y)]
     ELSE objects[i]]
\* the array a pointer-move of a resize session on an object hands to the callback
resizedObjects(id, oo, dx, dy) ==
  [i \in 1..Len(objects) |->
     IF objects[i].id = id
     THEN [objects[i] EXCEPT !.w = clamp(oo.w + dx, OBJ_MIN_W, CanvasWidth - oo.x),
                             !.h = clamp(oo.h + dy, OBJ_MIN_H, CanvasHeight - oo.y)]
     ELSE objects[i]]

MIN_W == 110
MIN_H == 48
resizedPlayers(id, op, dx, dy) ==
  [i \in 1..Len(placed) |->
     IF placed[i].id = id
     THEN [placed[i] EXCEPT !.w = clamp(op.w + dx, MIN_W, CanvasWidth - op.x),
                            !.h = clamp(op.h + dy, MIN_H, CanvasHeight - op.y)]
     ELSE placed[i]]

MoveFrame == UNCHANGED <<editMode, cardSizeMode, tool, selectedIds, activeId, down, captured, nextId,
                         nDrops, nDowns, hVars, pVars>>

\* the two-finger branch of onPointerMove
twoFingerScroll(p, cx, cy) ==
  LET m == MapSet(pointersRef, p, cx, cy) IN
  /\ pointersRef' = m
  /\ twoFingerRef' = [active |-> TRUE, lastCx |-> Centre(m).x, lastCy |-> Centre(m).y]
  /\ scroll' = scrollBy(Centre(m).x - twoFingerRef.lastCx, Centre(m).y - twoFingerRef.lastCy)
  /\ cb' = NoCalls
  /\ UNCHANGED <<placed, objects, dragRef, box>>

\* the session branch of onPointerMove, for the owning pointer
sessionMove(p, cx, cy) ==
  LET d == dragRef
      pt == clientToBoard(cx, cy)
      dx == pt.x - d.startX
      dy == pt.y - d.startY
      moved == d.moved \/ FartherThan2(cx - d.lastClientX, cy - d.lastClientY)
      id == CHOOSE i \in d.ids : TRUE
  IN
  /\ UNCHANGED <<pointersRef, twoFingerRef, scroll>>
  /\ CASE d.mode = "box" ->
            /\ box' = IF box.on THEN [box EXCEPT !.x2 = pt.x, !.y2 = pt.y]
                      ELSE [x1 |-> d.startX, y1 |-> d.startY, x2 |-> pt.x, y2 |-> pt.y,
                            on |-> TRUE]
            /\ dragRef' = [d EXCEPT !.moved = moved]
            /\ cb' = NoCalls
            /\ UNCHANGED <<placed, objects>>
       [] d.mode = "move" ->
            /\ placed' = movedPlayers(d, dx, dy)
            /\ objects' = movedObjects(d, dx, dy)
            /\ cb' = [NoCalls EXCEPT !.placed = 1, !.objects = 1]
            /\ dragRef' = [d EXCEPT !.moved = moved, !.lastClientX = cx, !.lastClientY = cy]
            /\ UNCHANGED box
       [] d.mode = "resize" /\ id \in DOMAIN d.originPlayers ->
            /\ placed' = resizedPlayers(id, d.originPlayers[id], dx, dy)
            /\ cb' = [NoCalls EXCEPT !.placed = 1]
            /\ dragRef' = [d EXCEPT !.moved = moved]
            /\ UNCHANGED <<objects, box>>
       [] d.mode = "resize" /\ id \notin DOMAIN d.originPlayers
                            /\ id \in DOMAIN d.originObjects ->
            /\ objects' = resizedObjects(id, d.originObjects[id], dx, dy)
            /\ cb' = [NoCalls EXCEPT !.objects = 1]
            /\ dragRef' = [d EXCEPT !.moved = moved]
            /\ UNCHANGED <<placed, box>>
       [] OTHER ->
            /\ dragRef' = [d EXCEPT !.moved = moved, !.lastClientX = cx, !.lastClientY = cy]
            /\ cb' = NoCalls
            /\ UNCHANGED <<placed, objects, box>>

\* onPointerMove without the test of the pointer id
onPointerMoveAnyPointer(p, cx, cy) ==
  /\ pointerType(p) = "touch" => p \in down
  /\ ev' = PointerEvent("move", p, NoId, "none", 0)
  /\ MoveFrame
  /\ IF twoFingerRef.active /\ pointerType(p) = "touch" /\ Len(pointersRef) >= 2
     THEN twoFingerScroll(p, cx, cy)
     ELSE IF dragRef.mode = "none"
     THEN /\ cb' = NoCalls
          /\ UNCHANGED <<placed, objects, dragRef, box, pointersRef, twoFingerRef, scroll>>
     ELSE sessionMove(p, cx, cy)
\* onPointerMove of the canvas
onPointerMove(p, cx, cy) ==
  /\ pointerType(p) = "touch" => p \in down
  /\ ev' = PointerEvent("move", p, NoId, "none", 0)
  /\ MoveFrame
  /\ IF twoFingerRef.active /\ pointerType(p) = "touch" /\ Len(pointersRef) >= 2
     THEN twoFingerScroll(p, cx, cy)
     ELSE IF dragRef.mode = "none" \/ dragRef.pointerId # p
     THEN /\ cb' = NoCalls
          /\ UNCHANGED <<placed, objects, dragRef, box, pointersRef, twoFingerRef, scroll>>
     ELSE sessionMove(p, cx, cy)

\* ---------------------------------------------------------------- pointer up

\* rectNorm that takes the first corner for the top-left one
rectNormAsGiven(x1, y1, x2, y2) ==
  [left |-> x1, top |-> y1, right |-> x2, bottom |-> y2, w |-> x2 - x1, h |-> y2 - y1]
rectNorm(x1, y1, x2, y2) ==
  [left |-> Min(x1, x2), top |-> Min(y1, y2), right |-> Max(x1, x2), bottom |-> Max(y1, y2),
   w |-> Max(x1, x2) - Min(x1, x2), h |-> Max(y1, y2) - Min(y1, y2)]

rectIntersects(a, b) ==
  ~(b.left > a.right \/ b.right < a.left \/ b.top > a.bottom \/ b.bottom < a.top)

\* the rectangle box-select tests a card or an object with
hitRect(e) ==
  LET w == finiteOr(e.w, DEFAULT_W)
      h == finiteOr(e.h, DEFAULT_H)
  IN [left |-> e.x, top |-> e.y, right |-> e.x + w, bottom |-> e.y + h]

\* the ids box-select collects, cards first
boxHits(r) ==
  {placed[i].id : i \in {j \in 1..Len(placed) : rectIntersects(hitRect(placed[j]), r)}}
    \cup {objects[i].id : i \in {j \in 1..Len(objects) : rectIntersects(hitRect(objects[j]), r)}}

\* Array.from(selected)[0]: the first card hit, else the first object hit
firstHit(r) ==
  LET cards == {j \in 1..Len(placed) : rectIntersects(hitRect(placed[j]), r)}
      objs == {j \in 1..Len(objects) : rectIntersects(hitRect(objects[j]), r)}
  IN IF cards # {} THEN placed[CHOOSE j \in cards : \A k \in cards : j <= k].id
     ELSE IF objs # {} THEN objects[CHOOSE j \in objs : \A k \in objs : j <= k].id
     ELSE NoId

\* onPointerUp that treats no box as a click
onPointerUpNoThreshold(type, p) ==
  /\ p \in down
  /\ down' = down \ {p}
  /\ implicitRelease(p)
  /\ cb' = NoCalls
  /\ LET m == IF pointerType(p) = "touch" THEN MapDelete(pointersRef, p) ELSE pointersRef IN
     /\ pointersRef' = m
     /\ twoFingerRef' = IF pointerType(p) = "touch" /\ twoFingerRef.active /\ Len(m) < 2
                        THEN NoTwoFinger ELSE twoFingerRef
  /\ IF dragRef.mode = "none" \/ dragRef.pointerId # p
     THEN /\ ev' = [type |-> type, ptr |-> p, ended |-> "none", box |-> NoBox]
          /\ UNCHANGED <<dragRef, box, selectedIds, activeId>>
     ELSE /\ ev' = [type |-> type, ptr |-> p, ended |-> dragRef.mode, box |-> box]
          /\ dragRef' = NoDrag
          /\ IF dragRef.mode = "box"
             THEN /\ box' = NoBox
                  /\ IF ~box.on
                     THEN UNCHANGED <<selectedIds, activeId>>
                     ELSE LET r == rectNorm(box.x1, box.y1, box.x2, box.y2) IN
                          IF FALSE
                          THEN /\ activeId' = NoId
                               /\ selectedIds' = {}
                          ELSE /\ selectedIds' = boxHits(r)
                               /\ activeId' = firstHit(r)
             ELSE UNCHANGED <<box, selectedIds, activeId>>
  /\ UNCHANGED <<editMode, cardSizeMode, tool, placed, objects, scroll, nextId, nDrops,
                 nDowns, hVars, pVars>>

\* onPointerUp, also bound to pointer-cancel
onPointerUp(type, p) ==
  /\ p \in down
  /\ down' = down \ {p}
  /\ implicitRelease(p)
  /\ cb' = NoCalls
  /\ LET m == IF pointerType(p) = "touch" THEN MapDelete(pointersRef, p) ELSE pointersRef IN
     /\ pointersRef' = m
     /\ twoFingerRef' = IF pointerType(p) = "touch" /\ twoFingerRef.active /\ Len(m) < 2
                        THEN NoTwoFinger ELSE twoFingerRef
  /\ IF dragRef.mode = "none" \/ dragRef.pointerId # p
     THEN /\ ev' = [type |-> type, ptr |-> p, ended |-> "none", box |-> NoBox]
          /\ UNCHANGED <<dragRef, box, selectedIds, activeId>>
     ELSE /\ ev' = [type |-> type, ptr |-> p, ended |-> dragRef.mode, box |-> box]
          /\ dragRef' = NoDrag
          /\ IF dragRef.mode = "box"
             THEN /\ box' = NoBox
                  /\ IF ~box.on
                     THEN UNCHANGED <<selectedIds, activeId>>
                     ELSE LET r == rectNorm(box.x1, box.y1, box.x2, box.y2) IN
                          IF r.w < 6 /\ r.h < 6
                          THEN /\ activeId' = NoId
                               /\ selectedIds' = {}
                          ELSE /\ selectedIds' = boxHits(r)
                               /\ activeId' = firstHit(r)
             ELSE UNCHANGED <<box, selectedIds, activeId>>
  /\ UNCHANGED <<editMode, cardSizeMode, tool, placed, objects, scroll, nextId, nDrops,
                 nDowns, hVars, pVars>>

\* ---------------------------------------------------------------- the board with lanes and notes

\* getEffectiveCardSize: the size a card is rendered with
getEffectiveCardSize(mode, c) ==
  IF mode = "medium" THEN MEDIUM_CARD
  ELSE IF mode = "small" THEN SMALL_CARD
  ELSE [w |-> finiteOr(c.w, DEFAULT_W), h |-> finiteOr(c.h, DEFAULT_H)]

entityOf(id) == IF id \in placedIds THEN cardOf(id) ELSE objectOf(id)

\* a client point lies inside the scroll container
inViewport(cx, cy) == 0 <= cx /\ cx <= ViewportWidth /\ 0 <= cy /\ cy <= ViewportHeight

\* a board point lies on a rendered card or object (an element covers its left
\* and top edge, not its right and bottom edge)
onEntity(x, y) ==
  \/ \E i \in 1..Len(placed) :
       LET sz == getEffectiveCardSize(cardSizeMode, placed[i]) IN
       /\ placed[i].x <= x /\ x < placed[i].x + sz.w
       /\ placed[i].y <= y /\ y < placed[i].y + sz.h
  \/ \E i \in 1..Len(objects) :
       /\ objects[i].x <= x /\ x < objects[i].x + objects[i].w
       /\ objects[i].y <= y /\ y < objects[i].y + objects[i].h

\* client points of pointer-downs on the canvas background
CanvasPoints == {<<0, 120>>, <<2900, 1900>>}
\* client points of the moves of a pointer that owns no session
PanPoints == {<<0, 120>>, <<40, 140>>}
\* client displacements, from the session's down-point, of its owner's moves
Deltas == {<<2, 0>>, <<120, -120>>, <<-3000, -2000>>, <<3000, 2000>>}
Tools == {"select", "lane", "note", "text"}
\* the pointer, modifier key and button of a pointer-down: the keyboard and the
\* secondary button go with the mouse
PointerInputs ==
  {[p |-> "m", mod |-> mod, button |-> 0] : mod \in Mods}
    \cup {[p |-> "m", mod |-> "none", button |-> 2]}
    \cup {[p |-> p, mod |-> "none", button |-> 0] : p \in Pointers \ {"m"}}

\* a card at the left canvas edge whose bottom edge lies at y = 120, a card
\* without stored size and a lane
MainBoard ==
  [placed |-> <<Card(1, 0, 28, 260, 92), Card(2, 500, 300, NoSize, NoSize)>>,
   objects |-> <<Obj(3, "lane", 1000, 600, 600, 200)>>]
\* the three items of the box-select example
ExampleBoard ==
  [placed |-> <<Card(1, 0, 0, 50, 50), Card(2, 100, 100, 50, 50), Card(3, 200, 200, 50, 50)>>,
   objects |-> << >>]

\* the props the board is mounted with
Scenarios ==
  {[editMode |-> TRUE, cardSizeMode |-> mode, tool |-> "select", board |-> MainBoard] :
     mode \in CardSizeModes}
    \cup {[editMode |-> TRUE, cardSizeMode |-> "large", tool |-> t, board |-> MainBoard] :
            t \in Tools}
    \cup {[editMode |-> FALSE, cardSizeMode |-> "large", tool |-> "select", board |-> MainBoard],
          [editMode |-> TRUE, cardSizeMode |-> "large", tool |-> "select", board |-> ExampleBoard]}

Init ==
  /\ \E sc \in Scenarios :
       /\ editMode = sc.editMode
       /\ cardSizeMode = sc.cardSizeMode
       /\ placed = sc.board.placed
       /\ objects = sc.board.objects
       /\ tool = sc.tool
  /\ selectedIds = {}
  /\ activeId = NoId
  /\ dragRef = NoDrag
  /\ box = NoBox
  /\ pointersRef = << >>
  /\ twoFingerRef = NoTwoFinger
  /\ scroll = [left |-> 0, top |-> 0]
  /\ down = {}
  /\ nextId = 0
  /\ nDrops = 0
  /\ nDowns = 0
  /\ hPlaced = << >>
  /\ draggingRef = NoDragging
  /\ dragPreview = NoPreview
  /\ rafQueued = 0
  /\ playerModal = NoId
  /\ gest = NoGesture
  /\ captured = {}
  /\ InitPage
  /\ InitStage
  /\ ev = [type |-> "init"]
  /\ cb = NoCalls

PointerDownItem ==
  \E in \in PointerInputs, id \in placedIds \cup objectIds :
    /\ inViewport(entityOf(id).x + 6 - scroll.left, entityOf(id).y + 6 - scroll.top)
    /\ beginMoveAny(in.p, id, in.mod, in.button,
                    entityOf(id).x + 6 - scroll.left, entityOf(id).y + 6 - scroll.top)
    /\ UNCHANGED <<gest, pageVars, stageVars>>

PointerDownHandle ==
  \E in \in PointerInputs, id \in objectIds :
    /\ inViewport(objectOf(id).x + objectOf(id).w - 6 - scroll.left,
                  objectOf(id).y + objectOf(id).h - 6 - scroll.top)
    /\ beginResizeAny(in.p, id, in.button,
                      objectOf(id).x + objectOf(id).w - 6 - scroll.left,
                      objectOf(id).y + objectOf(id).h - 6 - scroll.top)
    /\ UNCHANGED <<gest, pageVars, stageVars>>

PointerDownPhoto ==
  \E in \in PointerInputs, id \in placedIds :
    /\ in.button = 0
    /\ inViewport(cardOf(id).x + 6 - scroll.left, cardOf(id).y + 6 - scroll.top)
    /\ onPointerDownPhoto(in.p, id, in.mod)
    /\ UNCHANGED <<gest, pageVars, stageVars>>

PointerDownCanvas ==
  \E in \in PointerInputs, pt \in CanvasPoints :
    /\ in.button = 0
    /\ ~onEntity(clientToBoard(pt[1], pt[2]).x, clientToBoard(pt[1], pt[2]).y)
    /\ onPointerDownCanvas(in.p, in.mod, pt[1], pt[2])
    /\ UNCHANGED <<gest, pageVars, stageVars>>

PointerMove ==
  \E p \in Pointers :
    /\ IF dragRef.mode # "none" /\ dragRef.pointerId = p
       THEN \E dl \in Deltas :
              onPointerMove(p, dragRef.startX - scroll.left + dl[1],
                            dragRef.startY - scroll.top + dl[2])
       ELSE \E pt \in PanPoints : onPointerMove(p, pt[1], pt[2])
    /\ UNCHANGED <<gest, pageVars, stageVars>>

PointerUp == \E p \in Pointers : onPointerUp("up", p) /\ UNCHANGED <<gest, pageVars, stageVars>>

PointerCancel == \E p \in Pointers : onPointerUp("cancel", p) /\ UNCHANGED <<gest, pageVars, stageVars>>

Next ==
  \/ PointerDownItem
  \/ PointerDownHandle
  \/ PointerDownPhoto
  \/ PointerDownCanvas
  \/ PointerMove
  \/ PointerUp
  \/ PointerCancel

Spec == Init /\ [][Next]_vars

\* ---------------------------------------------------------------- deleting objects

\* what the delete handlers leave alone
KeyFrame == UNCHANGED <<editMode, cardSizeMode, tool, placed, dragRef, box, pointersRef,
                        twoFingerRef, scroll, down, captured, nextId, nDrops, nDowns, hVars,
                        pVars>>

\* deleteSelectedObjects
deleteSelectedObjects(ids) ==
  IF ids = {}
  THEN /\ cb' = NoCalls
       /\ UNCHANGED <<objects, selectedIds, activeId>>
  ELSE /\ objects' = SelectSeq(objects, LAMBDA o : o.id \notin ids)
       /\ cb' = [NoCalls EXCEPT !.objects = 1]
       /\ selectedIds' = selectedIds \ ids
       /\ activeId' = IF activeId # NoId /\ activeId \in ids THEN NoId ELSE activeId

\* the window keydown listener: selectedIdsRef follows selectedIds
onKeyDown(key) ==
  /\ ev' = [type |-> "key", key |-> key, sel |-> selectedIds]
  /\ KeyFrame
  /\ IF ~editMode \/ key \notin {"Delete", "Backspace"}
     THEN /\ cb' = NoCalls
          /\ UNCHANGED <<objects, selectedIds, activeId>>
     ELSE deleteSelectedObjects(selectedIds \cap objectIds)

\* onClick of the delete button of a board object, rendered in edit mode while
\* the object is selected
onClickDelete(id) ==
  /\ editMode
  /\ id \in objectIds \cap selectedIds
  /\ ev' = [type |-> "clickDelete", id |-> id, sel |-> selectedIds]
  /\ KeyFrame
  /\ deleteSelectedObjects({id})

Keys == {"Delete", "Backspace", "Escape"}

KeyDown == \E key \in Keys : onKeyDown(key) /\ UNCHANGED <<gest, pageVars, stageVars>>

ClickDelete == \E id \in objectIds : onClickDelete(id) /\ UNCHANGED <<gest, pageVars, stageVars>>

\* selecting with presses, deleting with the keyboard or the delete button
NextKey ==
  \/ PointerDownItem
  \/ PointerUp
  \/ KeyDown
  \/ ClickDelete

SpecKey == Init /\ [][NextKey]_vars
\* ---------------------------------------------------------------- the cards-only board (click opens the player)

\* beginMove
p1BeginMove(p, id, mod, button, cx, cy) ==
  /\ p \notin down
  /\ down' = down \cup {p}
  /\ ev' = PointerEvent("p1Down", p, id, mod, button)
  /\ DownFrame
  /\ IF ~editMode \/ button # 0 \/ (pointerType(p) = "touch" /\ Len(pointersRef) >= 2)
     THEN bubbleToCanvas(p, cx, cy)
     ELSE /\ selectedIds' = selectionOnPointerDown(id, mod)
          /\ activeId' = id
          /\ dragRef' = [mode |-> "move", pointerId |-> p, ids |-> getMoveIds(id),
                         startX |-> clientToBoard(cx, cy).x,
                         startY |-> clientToBoard(cx, cy).y, moved |-> FALSE,
                         lastClientX |-> cx, lastClientY |-> cy,
                         originPlayers |-> originPlayersOf(getMoveIds(id)),
                         originObjects |-> << >>]
          /\ captured' = captured \cup {p}
          /\ cb' = NoCalls
          /\ UNCHANGED <<tool, placed, objects, box, pointersRef, twoFingerRef, nextId>>

\* beginResize: onPointerDown of the resize handle of a card, rendered in edit
\* mode only. With another button the event bubbles through beginMove of the
\* card, which returns too.
p1BeginResize(p, id, button, cx, cy) ==
  /\ editMode
  /\ id \in placedIds
  /\ p \notin down
  /\ down' = down \cup {p}
  /\ ev' = PointerEvent("p1DownHandle", p, id, "none", button)
  /\ DownFrame
  /\ IF button # 0
     THEN bubbleToCanvas(p, cx, cy)
     ELSE /\ activeId' = id
          /\ selectedIds' = {id}
          /\ dragRef' = [mode |-> "resize", pointerId |-> p, ids |-> {id},
                         startX |-> clientToBoard(cx, cy).x,
                         startY |-> clientToBoard(cx, cy).y, moved |-> FALSE,
                         lastClientX |-> cx, lastClientY |-> cy,
                         originPlayers |-> originPlayersOf({id}),
                         originObjects |-> << >>]
          /\ captured' = captured \cup {p}
          /\ cb' = NoCalls
          /\ UNCHANGED <<tool, placed, objects, box, pointersRef, twoFingerRef, nextId>>
\* the array a pointer-move of a move session hands to onPlacedChange
p1MovedPlayers(d, dx, dy) ==
  [i \in 1..Len(placed) |->
     IF placed[i].id \in DOMAIN d.originPlayers
     THEN LET o == d.originPlayers[placed[i].id] IN
          [placed[i] EXCEPT !.x = clamp(o.x + dx, 0, CanvasWidth - o.w),
                            !.y = clamp(o.y + dy, 0, CanvasHeight - o.h),
                            !.w = o.w, !.h = o.h]
     ELSE placed[i]]

\* moved: set by a pointer-move more than 2px away from the previous one
p1Moved(d, cx, cy) == d.moved \/ FartherThan2(cx - d.lastClientX, cy - d.lastClientY)

\* onPointerMove
p1OnPointerMove(p, cx, cy) ==
  /\ pointerType(p) = "touch" => p \in down
  /\ ev' = PointerEvent("p1Move", p, NoId, "none", 0)
  /\ MoveFrame
  /\ IF twoFingerRef.active /\ pointerType(p) = "touch" /\ Len(pointersRef) >= 2
     THEN twoFingerScroll(p, cx, cy)
     ELSE IF dragRef.mode = "none" \/ dragRef.pointerId # p
     THEN /\ cb' = NoCalls
          /\ UNCHANGED <<placed, objects, dragRef, box, pointersRef, twoFingerRef, scroll>>
     ELSE LET d == dragRef
              pt == clientToBoard(cx, cy)
              id == CHOOSE i \in d.ids : TRUE
          IN
          /\ UNCHANGED <<objects, box, pointersRef, twoFingerRef, scroll>>
          /\ IF d.mode = "move"
             THEN /\ placed' = p1MovedPlayers(d, pt.x - d.startX, pt.y - d.startY)
                  /\ cb' = [NoCalls EXCEPT !.placed = 1]
                  /\ dragRef' = [d EXCEPT !.moved = p1Moved(d, cx, cy),
                                          !.lastClientX = cx, !.lastClientY = cy]
             ELSE IF id \notin DOMAIN d.originPlayers
             THEN /\ dragRef' = [d EXCEPT !.moved = p1Moved(d, cx, cy)]
                  /\ cb' = NoCalls
                  /\ UNCHANGED placed
             ELSE /\ placed' = resizedPlayers(id, d.originPlayers[id], pt.x - d.startX,
                                              pt.y - d.startY)
                  /\ cb' = [NoCalls EXCEPT !.placed = 1]
                  /\ dragRef' = [d EXCEPT !.moved = p1Moved(d, cx, cy),
                                          !.lastClientX = cx, !.lastClientY = cy]

\* onPointerUp, also bound to pointer-cancel
p1OnPointerUp(type, p) ==
  /\ p \in down
  /\ down' = down \ {p}
  /\ implicitRelease(p)
  /\ LET m == IF pointerType(p) = "touch" THEN MapDelete(pointersRef, p) ELSE pointersRef IN
     /\ pointersRef' = m
     /\ twoFingerRef' = IF pointerType(p) = "touch" /\ twoFingerRef.active /\ Len(m) < 2
                        THEN NoTwoFinger ELSE twoFingerRef
  /\ IF dragRef.mode = "none" \/ dragRef.pointerId # p
     THEN /\ ev' = [type |-> "p1Up", ptr |-> p, ended |-> "none"]
          /\ cb' = NoCalls
          /\ UNCHANGED dragRef
     ELSE /\ ev' = [type |-> "p1Up", ptr |-> p, ended |-> dragRef.mode]
          /\ dragRef' = NoDrag
          /\ cb' = IF ~dragRef.moved /\ Cardinality(dragRef.ids) = 1
                      /\ dragRef.ids \subseteq placedIds
                   THEN [NoCalls EXCEPT !.open = 1] ELSE NoCalls
  /\ UNCHANGED <<editMode, cardSizeMode, tool, placed, objects, selectedIds, activeId, box,
                 scroll, nextId, nDrops, nDowns, hVars, pVars>>

\* ---------------------------------------------------------------- the frame-throttled board with a player modal

hCardOf(id) == CHOOSE c \in {hPlaced[i] : i \in 1..Len(hPlaced)} : c.id = id
hPlacedIds == {hPlaced[i].id : i \in 1..Len(hPlaced)}

\* what the frame-throttled handlers leave alone
HFrame == UNCHANGED <<editMode, cardSizeMode, aVars, nextId, nDrops>>

\* beginMove; e.buttons is 1 while the primary button or a touch is down
p4BeginMove(p, id, buttons, cx, cy) ==
  /\ p \notin down
  /\ ev' = PointerEvent("p4Down", p, id, "none", buttons)
  /\ UNCHANGED <<editMode, cardSizeMode, tool, placed, objects, selectedIds, activeId, dragRef,
                 box, pointersRef, twoFingerRef, scroll, nextId, nDrops>>
  /\ down' = down \cup {p}
  /\ nDowns < MaxDowns
  /\ nDowns' = nDowns + 1
  /\ cb' = NoCalls
  /\ UNCHANGED <<hPlaced, rafQueued, playerModal>>
  /\ IF ~editMode \/ id \notin hPlacedIds \/ buttons # 1
     THEN UNCHANGED <<draggingRef, dragPreview, captured>>
     ELSE LET card == hCardOf(id)
              pt == hClientToBoard(cx, cy)
          IN
          /\ draggingRef' = [id |-> id, pointerId |-> p, dx |-> pt.x - card.x,
                             dy |-> pt.y - card.y, rafPending |-> FALSE,
                             nextX |-> card.x, nextY |-> card.y, moved |-> FALSE,
                             startClientX |-> cx, startClientY |-> cy]
          /\ dragPreview' = [id |-> id, x |-> card.x, y |-> card.y]
          /\ captured' = captured \cup {p}

Abs(n) == IF n < 0 THEN -n ELSE n

\* moved: set by a pointer-move more than 6px, summed over the axes, from the down-point
p4Moved(d, cx, cy) ==
  d.moved \/ Abs(cx - d.startClientX) + Abs(cy - d.startClientY) > 6

\* onMove, the pointermove listener of the window
p4OnMove(p, cx, cy) ==
  /\ pointerType(p) = "touch" => p \in down
  /\ ev' = PointerEvent("p4Move", p, NoId, "none", 0)
  /\ cb' = NoCalls
  /\ HFrame
  /\ UNCHANGED <<nDowns, hPlaced, dragPreview, playerModal>>
  /\ IF draggingRef.id = NoId \/ draggingRef.pointerId # p
     THEN UNCHANGED <<draggingRef, rafQueued>>
     ELSE LET d == draggingRef
              w == IF d.id \in hPlacedIds THEN finiteOr(hCardOf(d.id).w, H_DEFAULT_W)
                   ELSE H_DEFAULT_W
              h == IF d.id \in hPlacedIds THEN finiteOr(hCardOf(d.id).h, H_DEFAULT_H)
                   ELSE H_DEFAULT_H
              pt == hClientToBoard(cx, cy)
          IN
          /\ draggingRef' = [d EXCEPT !.moved = p4Moved(d, cx, cy),
                                      !.nextX = clamp(pt.x - d.dx, 0, HBoardWidth - w),
                                      !.nextY = clamp(pt.y - d.dy, 0, HBoardHeight - h),
                                      !.rafPending = TRUE]
          /\ rafQueued' = IF d.rafPending THEN rafQueued ELSE rafQueued + 1

\* the requestAnimationFrame callback of schedulePreviewUpdate
p4Frame ==
  /\ rafQueued > 0
  /\ rafQueued' = rafQueued - 1
  /\ ev' = [type |-> "p4Frame"]
  /\ cb' = NoCalls
  /\ HFrame
  /\ UNCHANGED <<nDowns, hPlaced, playerModal>>
  /\ IF draggingRef.id = NoId
     THEN UNCHANGED <<draggingRef, dragPreview>>
     ELSE /\ draggingRef' = [draggingRef EXCEPT !.rafPending = FALSE]
          /\ dragPreview' = [id |-> draggingRef.id, x |-> draggingRef.nextX,
                             y |-> draggingRef.nextY]

\* onUp, the pointerup listener of the window
p4OnUp(p) ==
  /\ p \in down
  /\ down' = down \ {p}
  /\ implicitRelease(p)
  /\ UNCHANGED <<editMode, cardSizeMode, tool, placed, objects, selectedIds, activeId, dragRef,
                 box, pointersRef, twoFingerRef, scroll, nextId, nDrops>>
  /\ UNCHANGED <<nDowns, rafQueued>>
  /\ IF draggingRef.id = NoId \/ draggingRef.pointerId # p
     THEN /\ ev' = [type |-> "p4Up", ptr |-> p, ended |-> "none"]
          /\ cb' = NoCalls
          /\ UNCHANGED <<draggingRef, dragPreview, hPlaced, playerModal>>
     ELSE LET d == draggingRef IN
          /\ ev' = [type |-> "p4Up", ptr |-> p, ended |-> "move"]
          /\ draggingRef' = NoDragging
          /\ dragPreview' = NoPreview
          /\ IF d.id \notin hPlacedIds
             THEN /\ cb' = NoCalls
                  /\ UNCHANGED <<hPlaced, playerModal>>
             ELSE IF ~d.moved
             THEN /\ playerModal' = d.id
                  /\ cb' = [NoCalls EXCEPT !.open = 1]
                  /\ UNCHANGED hPlaced
             ELSE /\ hPlaced' = [i \in 1..Len(hPlaced) |->
                                   IF hPlaced[i].id = d.id
                                   THEN [hPlaced[i] EXCEPT !.x = d.nextX, !.y = d.nextY]
                                   ELSE hPlaced[i]]
                  /\ cb' = [NoCalls EXCEPT !.placed = 1]
                  /\ UNCHANGED playerModal

\* closing the modal
p4CloseModal ==
  /\ playerModal # NoId
  /\ playerModal' = NoId
  /\ ev' = [type |-> "p4Close"]
  /\ cb' = NoCalls
  /\ HFrame
  /\ UNCHANGED <<nDowns, hPlaced, draggingRef, dragPreview, rafQueued>>

\* ---------------------------------------------------------------- the frame-throttled board

\* what the handlers of the frame-throttled board leave alone
HMoveFrame ==
  UNCHANGED <<editMode, cardSizeMode, tool, placed, objects, selectedIds, activeId, dragRef,
              box, pointersRef, twoFingerRef, scroll, nextId, nDrops, playerModal>>

\* beginMove; e.buttons is 1 while the primary button or a touch is down
hBeginMove(p, id, buttons, cx, cy) ==
  /\ p \notin down
  /\ down' = down \cup {p}
  /\ nDowns < MaxDowns
  /\ nDowns' = nDowns + 1
  /\ ev' = PointerEvent("hDown", p, id, "none", buttons)
  /\ cb' = NoCalls
  /\ HMoveFrame
  /\ UNCHANGED <<hPlaced, rafQueued>>
  /\ IF ~editMode \/ buttons # 1 \/ id \notin hPlacedIds
     THEN UNCHANGED <<draggingRef, dragPreview, captured>>
     ELSE LET card == hCardOf(id)
              pt == hClientToBoard(cx, cy)
          IN
          /\ draggingRef' = [id |-> id, pointerId |-> p, dx |-> pt.x - card.x,
                             dy |-> pt.y - card.y, nextX |-> card.x, nextY |-> card.y,
                             rafPending |-> FALSE]
          /\ dragPreview' = [id |-> id, x |-> card.x, y |-> card.y]
          /\ captured' = captured \cup {p}

\* onMove, the pointermove listener of the window
hOnMove(p, cx, cy) ==
  /\ pointerType(p) = "touch" => p \in down
  /\ ev' = PointerEvent("hMove", p, NoId, "none", 0)
  /\ cb' = NoCalls
  /\ HMoveFrame
  /\ UNCHANGED <<down, captured, nDowns, hPlaced, dragPreview>>
  /\ IF draggingRef.id = NoId \/ draggingRef.pointerId # p
     THEN UNCHANGED <<draggingRef, rafQueued>>
     ELSE LET d == draggingRef
              w == IF d.id \in hPlacedIds THEN finiteOr(hCardOf(d.id).w, H_DEFAULT_W)
                   ELSE H_DEFAULT_W
              h == IF d.id \in hPlacedIds THEN finiteOr(hCardOf(d.id).h, H_DEFAULT_H)
                   ELSE H_DEFAULT_H
              pt == hClientToBoard(cx, cy)
          IN
          /\ draggingRef' = [d EXCEPT !.nextX = clamp(pt.x - d.dx, 0, HBoardWidth - w),
                                      !.nextY = clamp(pt.y - d.dy, 0, HBoardHeight - h),
                                      !.rafPending = TRUE]
          /\ rafQueued' = IF d.rafPending THEN rafQueued ELSE rafQueued + 1

\* a frame callback that does not return when no session is active: it shows a
\* preview of the first card at its committed position
hFrameAlways ==
  /\ rafQueued > 0
  /\ rafQueued' = rafQueued - 1
  /\ ev' = [type |-> "hFrame"]
  /\ cb' = NoCalls
  /\ HMoveFrame
  /\ UNCHANGED <<down, captured, nDowns, hPlaced>>
  /\ IF draggingRef.id = NoId
     THEN /\ UNCHANGED draggingRef
          /\ dragPreview' = [id |-> hPlaced[1].id, x |-> hPlaced[1].x, y |-> hPlaced[1].y]
     ELSE /\ draggingRef' = [draggingRef EXCEPT !.rafPending = FALSE]
          /\ dragPreview' = [id |-> draggingRef.id, x |-> draggingRef.nextX,
                             y |-> draggingRef.nextY]
\* the requestAnimationFrame callback of schedulePreviewUpdate
hFrame ==
  /\ rafQueued > 0
  /\ rafQueued' = rafQueued - 1
  /\ ev' = [type |-> "hFrame"]
  /\ cb' = NoCalls
  /\ HMoveFrame
  /\ UNCHANGED <<down, captured, nDowns, hPlaced>>
  /\ IF draggingRef.id = NoId
     THEN UNCHANGED <<draggingRef, dragPreview>>
     ELSE /\ draggingRef' = [draggingRef EXCEPT !.rafPending = FALSE]
          /\ dragPreview' = [id |-> draggingRef.id, x |-> draggingRef.nextX,
                             y |-> draggingRef.nextY]

\* onUp that commits the position the preview shows
hOnUpCommitPreview(p) ==
  /\ p \in down
  /\ down' = down \ {p}
  /\ implicitRelease(p)
  /\ HMoveFrame
  /\ UNCHANGED <<nDowns, rafQueued>>
  /\ IF draggingRef.id = NoId \/ draggingRef.pointerId # p
     THEN /\ ev' = [type |-> "hUp", ptr |-> p, ended |-> "none"]
          /\ cb' = NoCalls
          /\ UNCHANGED <<draggingRef, dragPreview, hPlaced>>
     ELSE LET d == draggingRef IN
          /\ ev' = [type |-> "hUp", ptr |-> p, ended |-> "move"]
          /\ draggingRef' = NoDragging
          /\ dragPreview' = NoPreview
          /\ IF d.id \notin hPlacedIds
             THEN /\ cb' = NoCalls
                  /\ UNCHANGED hPlaced
             ELSE /\ hPlaced' = [i \in 1..Len(hPlaced) |->
                                   IF hPlaced[i].id = d.id
                                   THEN [hPlaced[i] EXCEPT !.x = dragPreview.x,
                                                           !.y = dragPreview.y]
                                   ELSE hPlaced[i]]
                  /\ cb' = [NoCalls EXCEPT !.placed = 1]
\* onUp, the pointerup listener of the window
hOnUp(p) ==
  /\ p \in down
  /\ down' = down \ {p}
  /\ implicitRelease(p)
  /\ HMoveFrame
  /\ UNCHANGED <<nDowns, rafQueued>>
  /\ IF draggingRef.id = NoId \/ draggingRef.pointerId # p
     THEN /\ ev' = [type |-> "hUp", ptr |-> p, ended |-> "none"]
          /\ cb' = NoCalls
          /\ UNCHANGED <<draggingRef, dragPreview, hPlaced>>
     ELSE LET d == draggingRef IN
          /\ ev' = [type |-> "hUp", ptr |-> p, ended |-> "move"]
          /\ draggingRef' = NoDragging
          /\ dragPreview' = NoPreview
          /\ IF d.id \notin hPlacedIds
             THEN /\ cb' = NoCalls
                  /\ UNCHANGED hPlaced
             ELSE /\ hPlaced' = [i \in 1..Len(hPlaced) |->
                                   IF hPlaced[i].id = d.id
                                   THEN [hPlaced[i] EXCEPT !.x = d.nextX, !.y = d.nextY]
                                   ELSE hPlaced[i]]
                  /\ cb' = [NoCalls EXCEPT !.placed = 1]

\* a pointercancel event: the pointer is gone and the board has no listener for it
hOnCancel(p) ==
  /\ p \in down
  /\ down' = down \ {p}
  /\ implicitRelease(p)
  /\ ev' = [type |-> "hCancel", ptr |-> p, ended |-> "none"]
  /\ cb' = NoCalls
  /\ HMoveFrame
  /\ UNCHANGED <<nDowns, rafQueued, draggingRef, dragPreview, hPlaced>>

\* a card with a stored size and one without
HMainBoard == <<Card(1, 100, 100, 280, 96), Card(2, 600, 400, NoSize, NoSize)>>
\* client displacements, from the card's corner, of the moves of a session's owner
HDeltas == {<<3, 0>>, <<200, 100>>, <<-2000, -2000>>, <<2000, 2000>>}
\* the pointer and e.buttons of a pointer-down
HPointerInputs ==
  {[p |-> "m", buttons |-> 1], [p |-> "m", buttons |-> 2], [p |-> "t1", buttons |-> 1],
   [p |-> "t2", buttons |-> 1]}

InitH ==
  /\ editMode \in BOOLEAN
  /\ cardSizeMode = "large"
  /\ tool = "select"
  /\ placed = << >>
  /\ objects = << >>
  /\ selectedIds = {}
  /\ activeId = NoId
  /\ dragRef = NoDrag
  /\ box = NoBox
  /\ pointersRef = << >>
  /\ twoFingerRef = NoTwoFinger
  /\ scroll = [left |-> 0, top |-> 0]
  /\ down = {}
  /\ nextId = 0
  /\ nDrops = 0
  /\ nDowns = 0
  /\ hPlaced = HMainBoard
  /\ draggingRef = NoDragging
  /\ dragPreview = NoPreview
  /\ rafQueued = 0
  /\ playerModal = NoId
  /\ gest = NoGesture
  /\ captured = {}
  /\ InitPage
  /\ InitStage
  /\ ev = [type |-> "init"]
  /\ cb = NoCalls

HPointerDown ==
  \E in \in HPointerInputs, id \in hPlacedIds :
    /\ hBeginMove(in.p, id, in.buttons, hCardOf(id).x + 6 + HBoardRect.left,
                  hCardOf(id).y + 6 + HBoardRect.top)
    /\ UNCHANGED <<gest, pageVars, stageVars>>

HPointerMove ==
  \E p \in Pointers :
    /\ IF draggingRef.id # NoId /\ draggingRef.pointerId = p /\ draggingRef.id \in hPlacedIds
       THEN \E dl \in HDeltas :
              hOnMove(p, hCardOf(draggingRef.id).x + draggingRef.dx + HBoardRect.left + dl[1],
                      hCardOf(draggingRef.id).y + draggingRef.dy + HBoardRect.top + dl[2])
       ELSE hOnMove(p, HBoardRect.left + 50, HBoardRect.top + 50)
    /\ UNCHANGED <<gest, pageVars, stageVars>>

HAnimationFrame == hFrame /\ UNCHANGED <<gest, pageVars, stageVars>>

HPointerUp == \E p \in Pointers : hOnUp(p) /\ UNCHANGED <<gest, pageVars, stageVars>>

HPointerCancel == \E p \in Pointers : hOnCancel(p) /\ UNCHANGED <<gest, pageVars, stageVars>>

NextH ==
  \/ HPointerDown
  \/ HPointerMove
  \/ HAnimationFrame
  \/ HPointerUp
  \/ HPointerCancel

SpecH == InitH /\ [][NextH]_vars
\* ---------------------------------------------------------------- click or drag

\* horizontal client offsets, from the down-point, of the pointer-moves of a gesture
Offs == {0, 1, 2, 4, 6, 8, 10, 12}
\* the longest pointer path of a gesture, in px
MaxPath == 12

\* one card on each board
ClickBoard == <<Card(1, 100, 100, 260, 92)>>
HClickBoard == <<Card(1, 100, 100, 280, 96)>>

InitClick ==
  /\ editMode = TRUE
  /\ cardSizeMode = "large"
  /\ tool = "select"
  /\ placed = ClickBoard
  /\ objects = << >>
  /\ selectedIds = {}
  /\ activeId = NoId
  /\ dragRef = NoDrag
  /\ box = NoBox
  /\ pointersRef = << >>
  /\ twoFingerRef = NoTwoFinger
  /\ scroll \in {[left |-> 0, top |-> 0], [left |-> 40, top |-> 20]}
  /\ down = {}
  /\ nextId = 0
  /\ nDrops = 0
  /\ nDowns = 0
  /\ hPlaced = HClickBoard
  /\ draggingRef = NoDragging
  /\ dragPreview = NoPreview
  /\ rafQueued = 0
  /\ playerModal = NoId
  /\ gest = NoGesture
  /\ captured = {}
  /\ InitPage
  /\ InitStage
  /\ ev = [type |-> "init"]
  /\ cb = NoCalls

\* a gesture: a pointer-down on a card, pointer-moves along a horizontal line, a release
Gesture(variant, p, cx, cy, list) ==
  [variant |-> variant, ptr |-> p, x0 |-> cx, y0 |-> cy, off |-> 0, path |-> 0,
   start |-> list, changed |-> FALSE]

ClickP1Down ==
  \E in \in PointerInputs, id \in placedIds :
    LET cx == cardOf(id).x + 6 - scroll.left
        cy == cardOf(id).y + 6 - scroll.top
    IN /\ down = {}
       /\ in.button = 0
       /\ p1BeginMove(in.p, id, in.mod, in.button, cx, cy)
       /\ UNCHANGED <<pageVars, stageVars>>
       /\ gest' = Gesture("P1", in.p, cx, cy, placed)

ClickP1Move ==
  \E off \in Offs :
    /\ gest.variant = "P1" /\ gest.ptr \in down
    /\ off # gest.off
    /\ gest.path + Abs(off - gest.off) <= MaxPath
    /\ p1OnPointerMove(gest.ptr, gest.x0 + off, gest.y0)
    /\ UNCHANGED <<pageVars, stageVars>>
    /\ gest' = [gest EXCEPT !.off = off, !.path = gest.path + Abs(off - gest.off),
                            !.changed = gest.changed \/ (cb'.placed > 0 /\ placed' # gest.start)]

ClickP1Up ==
  /\ gest.variant = "P1" /\ gest.ptr \in down
  /\ p1OnPointerUp("up", gest.ptr)
  /\ UNCHANGED <<pageVars, stageVars>>
  /\ gest' = [gest EXCEPT !.changed = gest.changed \/ (cb'.placed > 0 /\ placed' # gest.start)]

ClickP4Down ==
  \E p \in Pointers, id \in hPlacedIds :
    LET cx == hCardOf(id).x + 6 + HBoardRect.left
        cy == hCardOf(id).y + 6 + HBoardRect.top
    IN /\ down = {}
       /\ p4BeginMove(p, id, 1, cx, cy)
       /\ UNCHANGED <<pageVars, stageVars>>
       /\ gest' = Gesture("P4", p, cx, cy, hPlaced)

ClickP4Move ==
  \E off \in Offs :
    /\ gest.variant = "P4" /\ gest.ptr \in down
    /\ off # gest.off
    /\ gest.path + Abs(off - gest.off) <= MaxPath
    /\ p4OnMove(gest.ptr, gest.x0 + off, gest.y0)
    /\ UNCHANGED <<pageVars, stageVars>>
    /\ gest' = [gest EXCEPT !.off = off, !.path = gest.path + Abs(off - gest.off),
                            !.changed = gest.changed \/ (cb'.placed > 0 /\ hPlaced' # gest.start)]

ClickP4Frame == p4Frame /\ UNCHANGED <<gest, pageVars, stageVars>>

ClickP4Up ==
  /\ gest.variant = "P4" /\ gest.ptr \in down
  /\ p4OnUp(gest.ptr)
  /\ UNCHANGED <<pageVars, stageVars>>
  /\ gest' = [gest EXCEPT !.changed = gest.changed \/ (cb'.placed > 0 /\ hPlaced' # gest.start)]

ClickP4Close == p4CloseModal /\ UNCHANGED <<gest, pageVars, stageVars>>

NextClick ==
  \/ ClickP1Down
  \/ ClickP1Move
  \/ ClickP1Up
  \/ ClickP4Down
  \/ ClickP4Move
  \/ ClickP4Frame
  \/ ClickP4Up
  \/ ClickP4Close

SpecClick == InitClick /\ [][NextClick]_vars


\* ---------------------------------------------------------------- the board page: autosave

\* what the handlers of the board page leave alone
PageFrame ==
  UNCHANGED <<editMode, cardSizeMode, tool, objects, selectedIds, activeId, dragRef, box,
              pointersRef, twoFingerRef, scroll, down, captured, nextId, nDrops, nDowns,
              hVars, pVars, stageVars, gest>>

\* scheduleAutosave whose callback reads, for an argument not given, the state
\* the page was mounted with
scheduleAutosaveStale(nextPlaced, nextBg) ==
  /\ saveTimer' = saveTimer + 1
  /\ timers' = {t \in timers : saveTimer = 0 \/ t.id # saveTimer} \cup
       {[id |-> saveTimer + 1,
         placedPlayers |-> IF nextPlaced # << >> THEN nextPlaced[1] ELSE MainBoard.placed,
         backgroundUrl |-> IF nextBg # << >> THEN nextBg[1] ELSE ""]}
\* scheduleAutosave that leaves the previous timer running
scheduleAutosaveNoClear(nextPlaced, nextBg) ==
  /\ saveTimer' = saveTimer + 1
  /\ timers' = timers \cup
       {[id |-> saveTimer + 1,
         placedPlayers |-> IF nextPlaced # << >> THEN nextPlaced[1] ELSE placed,
         backgroundUrl |-> IF nextBg # << >> THEN nextBg[1] ELSE backgroundUrl]}
\* scheduleAutosave(nextPlaced?, nextBg?): an argument is << >> when it is not
\* given and <<v>> when it is. clearTimeout removes the previous timer if it has
\* not run; setTimeout returns an id no timer had before. The callback keeps the
\* arguments and, for one not given, the state of the render that made the call.
\* (The page mounts the canvas for a loaded board only, so boardId is set.)
scheduleAutosave(nextPlaced, nextBg) ==
  /\ saveTimer' = saveTimer + 1
  /\ timers' = {t \in timers : saveTimer = 0 \/ t.id # saveTimer} \cup
       {[id |-> saveTimer + 1,
         placedPlayers |-> IF nextPlaced # << >> THEN nextPlaced[1] ELSE placed,
         backgroundUrl |-> IF nextBg # << >> THEN nextBg[1] ELSE backgroundUrl]}

\* onPlacedChange of the canvas
pageOnPlacedChange(next) ==
  /\ nChanges < MaxChanges
  /\ nChanges' = nChanges + 1
  /\ placed' = next
  /\ scheduleAutosave(<<next>>, << >>)
  /\ ev' = [type |-> "placedChange"]
  /\ cb' = NoCalls
  /\ PageFrame
  /\ UNCHANGED <<backgroundUrl, persistCalls>>

\* onBackgroundUrlChange of the canvas
pageOnBackgroundUrlChange(url) ==
  /\ nChanges < MaxChanges
  /\ nChanges' = nChanges + 1
  /\ backgroundUrl' = url
  /\ scheduleAutosave(<< >>, <<url>>)
  /\ ev' = [type |-> "backgroundChange"]
  /\ cb' = NoCalls
  /\ PageFrame
  /\ UNCHANGED <<placed, persistCalls>>

\* the callback of the timer, 600 ms after it was set: persistBoardData is called
pageSaveTimeout(t) ==
  /\ t \in timers
  /\ timers' = timers \ {t}
  /\ persistCalls' = Append(persistCalls, [placedPlayers |-> t.placedPlayers,
                                           backgroundUrl |-> t.backgroundUrl])
  /\ ev' = [type |-> "saveTimeout", id |-> t.id]
  /\ cb' = NoCalls
  /\ PageFrame
  /\ UNCHANGED <<placed, backgroundUrl, saveTimer, nChanges>>

\* the arrays the canvas commits and the URLs it sets
PagePlaced ==
  {<<Card(1, 0, 28, 260, 92)>>, <<Card(1, 120, 28, 260, 92)>>,
   <<Card(1, 120, 28, 260, 92), Card(2, 500, 300, 260, 92)>>}
PageUrls == {"/bg/field.png", "/bg/court.png"}

InitSave ==
  /\ Init
  /\ editMode /\ cardSizeMode = "large" /\ tool = "select"
  /\ placed = MainBoard.placed

PlacedChange == \E next \in PagePlaced : pageOnPlacedChange(next)
BackgroundChange == \E url \in PageUrls : pageOnBackgroundUrlChange(url)
SaveTimeout == \E t \in timers : pageSaveTimeout(t)

NextSave ==
  \/ PlacedChange
  \/ BackgroundChange
  \/ SaveTimeout

\* a timer that is set and not cleared runs
SpecSave == InitSave /\ [][NextSave]_vars /\ WF_vars(SaveTimeout)

\* ---------------------------------------------------------------- the pan/zoom stage

\* Numbers of the stage are fractions n/d in lowest terms, d > 0, so that
\* products and quotients by the zoom factor are exact.
RECURSIVE Gcd(_, _)
Gcd(a, b) == IF b = 0 THEN a ELSE Gcd(b, a % b)
Frac(n, d) ==
  LET g == Gcd(IF n < 0 THEN -n ELSE n, d) IN [n |-> n \div g, d |-> d \div g]
FracOf(i) == [n |-> i, d |-> 1]
FracSub(a, b) == Frac(a.n * b.d - b.n * a.d, a.d * b.d)
\* a * b, cancelling across before multiplying
FracMul(a, b) ==
  LET g1 == Gcd(IF a.n < 0 THEN -a.n ELSE a.n, b.d)
      g2 == Gcd(IF b.n < 0 THEN -b.n ELSE b.n, a.d)
  IN Frac((a.n \div g1) * (b.n \div g2), (a.d \div g2) * (b.d \div g1))
\* a / b for b > 0
FracDiv(a, b) == FracMul(a, [n |-> b.d, d |-> b.n])
FracLess(a, b) == a.n * b.d < b.n * a.d
\* clamp(n, min, max)
clampFrac(v, min, max) ==
  LET m == IF FracLess(max, v) THEN max ELSE v IN IF FracLess(m, min) THEN min ELSE m

\* factor = 1.06 and the range of the zoom factor, 0.3 to 3
ZoomFactor == [n |-> 53, d |-> 50]
MinScale == [n |-> 3, d |-> 10]
MaxScale == [n |-> 3, d |-> 1]
\* container.getBoundingClientRect() of the stage container
StageRect == [left |-> 320, top |-> 64]

\* the world point under a point of the stage, for a stage position and a zoom
\* factor: (p - offset) / scale
worldOf(px, py, off, sc) ==
  [x |-> FracDiv(FracSub(FracOf(px), off.x), sc),
   y |-> FracDiv(FracSub(FracOf(py), off.y), sc)]
\* mousePointTo of onWheel
mousePointTo(px, py) == worldOf(px, py, offset, scale)
\* clientToWorld
clientToWorld(cx, cy) == mousePointTo(cx - StageRect.left, cy - StageRect.top)

\* what the handlers of the stage leave alone
StageFrame ==
  /\ cb' = NoCalls
  /\ UNCHANGED <<editMode, cardSizeMode, aVars, nextId, nDrops, nDowns, hVars, pVars,
                 pageVars, gest>>

\* onWheel that zooms without moving the stage
onWheelKeepOffset(has, px, py, deltaY) ==
  /\ nWheels < MaxWheels
  /\ nWheels' = nWheels + 1
  /\ ev' = [type |-> "wheel", has |-> has, x |-> px, y |-> py, deltaY |-> deltaY]
  /\ StageFrame
  /\ UNCHANGED <<spaceDown, offset>>
  /\ scale' = IF ~has THEN scale
              ELSE clampFrac(IF deltaY > 0 THEN FracDiv(scale, ZoomFactor)
                             ELSE FracMul(scale, ZoomFactor), MinScale, MaxScale)
\* onWheel; has: stage.getPointerPosition() returned a point, (px, py)
onWheel(has, px, py, deltaY) ==
  /\ nWheels < MaxWheels
  /\ nWheels' = nWheels + 1
  /\ ev' = [type |-> "wheel", has |-> has, x |-> px, y |-> py, deltaY |-> deltaY]
  /\ StageFrame
  /\ UNCHANGED spaceDown
  /\ IF ~has
     THEN UNCHANGED <<scale, offset>>
     ELSE LET oldScale == scale
              mp == mousePointTo(px, py)
              direction == IF deltaY > 0 THEN -1 ELSE 1
              newScale == clampFrac(IF direction > 0 THEN FracMul(oldScale, ZoomFactor)
                                    ELSE FracDiv(oldScale, ZoomFactor), MinScale, MaxScale)
          IN /\ scale' = newScale
             /\ offset' = [x |-> FracSub(FracOf(px), FracMul(mp.x, newScale)),
                           y |-> FracSub(FracOf(py), FracMul(mp.y, newScale))]

\* the keydown and keyup listeners of the window, for the space bar
stageOnKey(pressed) ==
  /\ spaceDown # pressed
  /\ spaceDown' = pressed
  /\ ev' = [type |-> "space", pressed |-> pressed]
  /\ StageFrame
  /\ UNCHANGED <<scale, offset, nWheels>>

\* onDragEnd of the stage, which is draggable while the space bar is held; (x, y)
\* is the position the stage was dragged to
stageOnDragEnd(x, y) ==
  /\ spaceDown
  /\ offset # [x |-> FracOf(x), y |-> FracOf(y)]
  /\ offset' = [x |-> FracOf(x), y |-> FracOf(y)]
  /\ ev' = [type |-> "stageDragEnd", x |-> x, y |-> y]
  /\ StageFrame
  /\ UNCHANGED <<scale, spaceDown, nWheels>>

\* stage points of the pointer, wheel deltas and positions the stage is dragged to
StagePoints == {<<0, 0>>, <<100, 50>>}
WheelDeltas == {-100, 0, 100}
StageOffsets == {<<0, 0>>, <<-50, -100>>}

\* the stage at scale 1 and at the two ends of the zoom range, which repeated
\* zooming about the stage origin leads to
InitZoom ==
  /\ editMode = TRUE
  /\ cardSizeMode = "large"
  /\ tool = "select"
  /\ placed = MainBoard.placed
  /\ objects = << >>
  /\ selectedIds = {}
  /\ activeId = NoId
  /\ dragRef = NoDrag
  /\ box = NoBox
  /\ pointersRef = << >>
  /\ twoFingerRef = NoTwoFinger
  /\ scroll = [left |-> 0, top |-> 0]
  /\ down = {}
  /\ captured = {}
  /\ nextId = 0
  /\ nDrops = 0
  /\ nDowns = 0
  /\ hPlaced = << >>
  /\ draggingRef = NoDragging
  /\ dragPreview = NoPreview
  /\ rafQueued = 0
  /\ playerModal = NoId
  /\ InitPage
  /\ scale \in {FracOf(1), MinScale, MaxScale}
  /\ offset = [x |-> FracOf(0), y |-> FracOf(0)]
  /\ spaceDown = FALSE
  /\ nWheels = 0
  /\ gest = NoGesture
  /\ ev = [type |-> "init"]
  /\ cb = NoCalls

Wheel ==
  \E has \in BOOLEAN, pt \in StagePoints, deltaY \in WheelDeltas : onWheel(has, pt[1], pt[2], deltaY)
SpaceKey == \E pressed \in BOOLEAN : stageOnKey(pressed)
StageDragEnd == \E o \in StageOffsets : stageOnDragEnd(o[1], o[2])

NextZoom ==
  \/ Wheel
  \/ SpaceKey
  \/ StageDragEnd

SpecZoom == InitZoom /\ [][NextZoom]_vars

\* ---------------------------------------------------------------- view mode

\* the board mounted with editMode = false
InitView == Init /\ ~editMode

Drop ==
  \E custom \in RawVals, json \in JsonRawVals, text \in RawVals, pt \in DropPoints :
    onDrop(custom, json, text, pt[1], pt[2]) /\ UNCHANGED <<gest, pageVars, stageVars>>

\* every event the board listens to in view mode; the resize handles and the
\* delete buttons are rendered in edit mode only
NextView ==
  \/ PointerDownItem
  \/ PointerDownPhoto
  \/ PointerDownCanvas
  \/ PointerMove
  \/ PointerUp
  \/ PointerCancel
  \/ KeyDown
  \/ Drop

SpecView == InitView /\ [][NextView]_vars

\* ---------------------------------------------------------------- dragging to an edge and back

\* client displacements of the session owner: back at the down-point, or far
\* enough to push every entity against a canvas edge
EdgeDeltas == {<<0, 0>>, <<-3000, -2000>>, <<3000, 2000>>}

InitEdge == Init /\ editMode

PointerMoveEdge ==
  \E p \in Pointers, dl \in EdgeDeltas :
    /\ dragRef.mode # "none" /\ dragRef.pointerId = p
    /\ onPointerMove(p, dragRef.startX - scroll.left + dl[1],
                     dragRef.startY - scroll.top + dl[2])
    /\ UNCHANGED <<gest, pageVars, stageVars>>

NextEdge ==
  \/ PointerDownItem
  \/ PointerMoveEdge
  \/ PointerUp

SpecEdge == InitEdge /\ [][NextEdge]_vars

\* ---------------------------------------------------------------- deleting during a session

\* dragging and resizing while the keyboard and the delete buttons remove objects
NextRemove ==
  \/ PointerDownItem
  \/ PointerDownHandle
  \/ PointerMoveEdge
  \/ PointerUp
  \/ KeyDown
  \/ ClickDelete

SpecRemove == InitEdge /\ [][NextRemove]_vars

\* ---------------------------------------------------------------- the cards-only board: pressing the resize handle

ClickP1Handle ==
  \E in \in PointerInputs, id \in placedIds :
    LET cx == cardOf(id).x + finiteOr(cardOf(id).w, DEFAULT_W) - 6 - scroll.left
        cy == cardOf(id).y + finiteOr(cardOf(id).h, DEFAULT_H) - 6 - scroll.top
    IN /\ down = {}
       /\ in.button = 0
       /\ p1BeginResize(in.p, id, in.button, cx, cy)
       /\ UNCHANGED <<pageVars, stageVars>>
       /\ gest' = Gesture("P1", in.p, cx, cy, placed)

\* gestures on the body and on the resize handle of a card
NextHandle ==
  \/ ClickP1Down
  \/ ClickP1Handle
  \/ ClickP1Move
  \/ ClickP1Up

SpecHandle == InitClick /\ [][NextHandle]_vars

\* ---------------------------------------------------------------- the frame-throttled board: what a session commits

\* the session in draggingRef, as the user made it: the card as it was at the
\* pointer-down, the client point of the pointer-down and of the last
\* pointer-move of the owner
HGesture(p, id, cx, cy) ==
  [variant |-> "H", ptr |-> p, id |-> id, card |-> hCardOf(id), x0 |-> cx, y0 |-> cy,
   lastX |-> cx, lastY |-> cy, moved |-> FALSE]

CommitDown ==
  \E in \in HPointerInputs, id \in hPlacedIds :
    LET cx == hCardOf(id).x + 6 + HBoardRect.left
        cy == hCardOf(id).y + 6 + HBoardRect.top
    IN /\ hBeginMove(in.p, id, in.buttons, cx, cy)
       /\ gest' = IF editMode /\ in.buttons = 1 THEN HGesture(in.p, id, cx, cy) ELSE gest
       /\ UNCHANGED <<pageVars, stageVars>>

CommitMove ==
  \E p \in Pointers, dl \in HDeltas :
    /\ draggingRef.id # NoId /\ draggingRef.pointerId = p
    /\ LET cx == gest.x0 + dl[1]
           cy == gest.y0 + dl[2]
       IN /\ hOnMove(p, cx, cy)
          /\ gest' = [gest EXCEPT !.lastX = cx, !.lastY = cy, !.moved = TRUE]
    /\ UNCHANGED <<pageVars, stageVars>>

NextCommit ==
  \/ CommitDown
  \/ CommitMove
  \/ HAnimationFrame
  \/ HPointerUp
  \/ HPointerCancel

SpecCommit == InitH /\ [][NextCommit]_vars
\* ================================================================ claims

\* the last event was a pointer-move that a move or resize session acted on
SessionMoved ==
  /\ ev.type = "move"
  /\ dragRef.mode \in {"move", "resize"}
  /\ dragRef.pointerId = ev.ptr
  /\ cb.placed + cb.objects > 0

\* the entities of the session that are on the board
Affected == dragRef.ids \cap (placedIds \cup objectIds)
\* the rectangle an entity had at gesture start
OriginOf(id) ==
  IF id \in DOMAIN dragRef.originPlayers THEN dragRef.originPlayers[id]
  ELSE dragRef.originObjects[id]
\* the board displacement of the pointer since the down-point (move sessions
\* keep the client point of their last move)
PointerDx == clientToBoard(dragRef.lastClientX, dragRef.lastClientY).x - dragRef.startX
PointerDy == clientToBoard(dragRef.lastClientX, dragRef.lastClientY).y - dragRef.startY

WidthOf(e) == IF e.w = NoSize THEN DEFAULT_W ELSE e.w
HeightOf(e) == IF e.h = NoSize THEN DEFAULT_H ELSE e.h

C2_GroupMoveRigid ==
  (SessionMoved /\ dragRef.mode = "move") =>
    \A a, b \in Affected :
      /\ entityOf(a).x - OriginOf(a).x = entityOf(b).x - OriginOf(b).x
      /\ entityOf(a).y - OriginOf(a).y = entityOf(b).y - OriginOf(b).y

\* C3 (as claimed): a pointer-move never invokes the caller's change callbacks,
\* and the release that ends a move or resize session invokes one once.
\* onPointerMove invokes them on every move and onPointerUp never does.
C3_CommitOnlyOnRelease ==
  /\ ev.type = "move" => (cb.placed = 0 /\ cb.objects = 0)
  /\ (ev.type \in {"up", "cancel"} /\ ev.ended \in {"move", "resize"}) =>
       cb.placed + cb.objects = 1

\* what identifies a session: owner, mode, id set and origin snapshot
SessionOf(d) == <<d.pointerId, d.mode, d.ids, d.originPlayers, d.originObjects>>

\* C4 (as claimed): while a session is active a pointer-down of another pointer
\* on an item or a resize handle leaves the session as it is, and the session
\* ends only with an up or cancel of its owner. beginMoveAny and beginResizeAny
\* never look at dragRef before they overwrite it.
C4_SingleSession ==
  [][dragRef.mode # "none" =>
       /\ (/\ nDowns' # nDowns
           /\ ev'.type \in {"downItem", "downHandle"}
           /\ ev'.ptr # dragRef.pointerId)
            => (dragRef'.mode # "none" /\ SessionOf(dragRef') = SessionOf(dragRef))
       /\ dragRef'.mode = "none" =>
            (ev'.type \in {"up", "cancel"} /\ ev'.ptr = dragRef.pointerId)]_vars

\* the last event released a pointer that had pressed a card and started a session
ClickReleased == ev.type \in {"p1Up", "p4Up"} /\ ev.ended = "move"

\* C5 (as claimed): when the pointer travelled less than 2px between the press
\* of a card and the release, the release opens the item and no position change
\* was committed; when it travelled more than 10px, a new position was
\* committed and the release does not open the item, whatever the moves in
\* between. The cards-only board commits on every pointer-move and sets moved
\* only when two consecutive moves are more than 2px apart.
C5_ClickDragThreshold ==
  ClickReleased =>
    /\ gest.path < 2 => (cb.open = 1 /\ ~gest.changed)
    /\ gest.path > 10 => (gest.changed /\ cb.open = 0)

\* C6: the release of a box-select session whose box is at least 6 wide or 6
\* high makes the selection exactly the cards and objects whose rectangle
\* shares a point with the rectangle spanned by the down-point and the last
\* pointer position, whatever the order of the corners.
C6_BoxSelectExact ==
  (/\ ev.type \in {"up", "cancel"} /\ ev.ended = "box" /\ ev.box.on
   /\ (Max(ev.box.x1, ev.box.x2) - Min(ev.box.x1, ev.box.x2) >= 6
         \/ Max(ev.box.y1, ev.box.y2) - Min(ev.box.y1, ev.box.y2) >= 6)) =>
    selectedIds =
      {id \in placedIds \cup objectIds :
         LET e == entityOf(id) IN
         /\ e.x <= Max(ev.box.x1, ev.box.x2) /\ Min(ev.box.x1, ev.box.x2) <= e.x + WidthOf(e)
         /\ e.y <= Max(ev.box.y1, ev.box.y2) /\ Min(ev.box.y1, ev.box.y2) <= e.y + HeightOf(e)}

\* the example: items (0,0,50,50), (100,100,50,50), (200,200,50,50) and a box
\* between (0,120) and (120,0), the rectangle (0,0)-(120,120), select the first two
C6_Witness ==
  /\ ev.type = "up" /\ ev.ended = "box"
  /\ placed = ExampleBoard.placed
  /\ ev.box = [x1 |-> 0, y1 |-> 120, x2 |-> 120, y2 |-> 0, on |-> TRUE]
  /\ selectedIds = {1, 2}

\* the list a drop of the variant at hand appends to, and its canvas
DropList == IF ev.variant = "A" THEN placed ELSE hPlaced
DropWorld ==
  IF ev.variant = "A" THEN clientToBoard(ev.cx, ev.cy) ELSE hClientToBoard(ev.cx, ev.cy)
DropCanvas ==
  IF ev.variant = "A" THEN [w |-> CanvasWidth, h |-> CanvasHeight]
  ELSE [w |-> HBoardWidth, h |-> HBoardHeight]
DropCreated == Len(DropList) = ev.before + 1
\* the channels of the last drop in priority order
DropChannels == <<ev.custom, ev.json, ev.text>>

\* C7 (as claimed): a successful drop appends exactly one PlacedItem whose
\* top-left corner is the drop point minus half the item size, clamped into the
\* canvas. The frame-throttled variant puts the corner at the drop point itself.
C7_DropCentredAndClamped ==
  (ev.type = "drop" /\ cb.placed = 1 /\ \E i \in 1..3 : DropChannels[i] = "{name}") =>
    /\ DropCreated
    /\ LET it == DropList[Len(DropList)] IN
       /\ it.x = Max(0, Min(DropCanvas.w - it.w, DropWorld.x - it.w \div 2))
       /\ it.y = Max(0, Min(DropCanvas.h - it.h, DropWorld.y - it.h \div 2))

\* C8: in edit mode a drop whose only channel with data is text/plain, holding
\* JSON with a name field, appends one PlacedItem through the change callback.
C8_TextChannelFallback ==
  (ev.type = "drop" /\ editMode /\ ev.custom = "" /\ ev.json = "" /\ ev.text = "{name}") =>
    (DropCreated /\ cb.placed = 1)

C8_Witness ==
  /\ ev.type = "drop" /\ ev.variant = "A" /\ editMode
  /\ ev.custom = "" /\ ev.json = "" /\ ev.text = "{name}"
  /\ DropCreated /\ cb.placed = 1

Parses(raw) == raw # "" /\ JSONParse(raw).ok
Acceptable(raw) == Parses(raw) /\ ~Falsy(JSONParse(raw).val)

\* C9 (as claimed): the first channel, in the order custom, application/json,
\* text/plain, whose content parses as JSON is accepted; a higher-priority
\* channel that is non-empty but does not parse does not stop it. The
\* lanes/notes variant parses the first NON-EMPTY channel only.
C9_FallThroughOnParseFailure ==
  (ev.type = "drop" /\ editMode) =>
    \A i \in 1..3 :
      (Acceptable(DropChannels[i]) /\ \A j \in 1..(i - 1) : ~Parses(DropChannels[j]))
        => DropCreated

\* C10 (as claimed): a payload that parses as JSON but has neither a name nor an
\* id creates no PlacedItem: when no channel of a drop carries a name or an id,
\* nothing is appended and the change callback is not invoked.
C10_NoNameNoIdRejected ==
  (ev.type = "drop" /\ \A i \in 1..3 : DropChannels[i] \in {"", "bad", "null", "{}"}) =>
    (Len(DropList) = ev.before /\ cb.placed = 0)

\* C11: a drop with no payload on any channel, or whose channels hold nothing
\* that parses as JSON, invokes no change callback and leaves the placed items,
\* the board objects and the selection as they were; JSON.parse throwing is
\* caught by the decoder.
C11_MalformedDropNoOp ==
  [][(/\ nDrops' = nDrops + 1
      /\ ev'.type = "drop"
      /\ ~Parses(ev'.custom) /\ ~Parses(ev'.json) /\ ~Parses(ev'.text))
       => (/\ cb' = NoCalls
           /\ UNCHANGED <<placed, hPlaced, objects, selectedIds, activeId>>)]_vars

C11_Witness ==
  /\ ev.type = "drop" /\ editMode
  /\ ev.custom = "bad" /\ ev.json = "" /\ ev.text = "bad"
  /\ cb = NoCalls
  /\ Len(placed) = 1 /\ Len(hPlaced) = 0

\* the last event was a pointer-down on an entity with the primary button
PressedEntity(mod) ==
  ev.type \in {"downItem", "downPhoto"} /\ ev.mod = mod /\ ev.button = 0
\* a touch that arrived while two touches were down already, which beginMoveAny
\* left to the two-finger scroll: it is the third pointer tracked
ThirdTouch == pointerType(ev.ptr) = "touch" /\ Len(pointersRef) >= 3

\* C12 (as claimed): after a plain primary-button press of entity A the
\* selection is exactly {A}, whatever it was before, so a second plain press of
\* A yields {A} again. In view mode beginMoveAny returns before it selects.
C12_PlainClickSelectsOnly == PressedEntity("none") => selectedIds = {ev.id}

\* C12 (amended): in edit mode, after a plain primary-button press of entity A
\* that is not a third touch, the selection is exactly {A}.
C12_PlainClickSelectsOnlyInEditMode ==
  (PressedEntity("none") /\ editMode /\ ~ThirdTouch) => selectedIds = {ev.id}

\* a plain press of card 1 while cards 1 and 2 were selected: the session moves
\* the previous selection and the selection is {1}
C12_Witness ==
  /\ PressedEntity("none") /\ editMode /\ ev.id = 1
  /\ dragRef.mode = "move" /\ dragRef.ids = {1, 2}
  /\ selectedIds = {1}

\* the selection a toggle click on an entity is claimed to leave
Toggled(sel, id) ==
  IF id \notin sel THEN sel \cup {id}
  ELSE IF sel = {id} THEN {id} ELSE sel \ {id}

\* C13 (as claimed): a command/ctrl press of an entity adds it to the selection
\* when absent and removes it when present, except that the selection stays
\* {that entity} when the removal would empty it; a toggle press never empties
\* a non-empty selection. In view mode beginMoveAny returns before it selects.
C13_ToggleSelect ==
  [][(ev'.type \in {"downItem", "downPhoto"} /\ ev'.mod = "meta" /\ ev'.button = 0)
       => (/\ selectedIds' = Toggled(selectedIds, ev'.id)
           /\ selectedIds' # {})]_vars

\* C13 (amended): the same of a command/ctrl press in edit mode that is not a
\* touch arriving while two touches are down.
C13_ToggleSelectInEditMode ==
  [][(/\ ev'.type \in {"downItem", "downPhoto"} /\ ev'.mod = "meta" /\ ev'.button = 0
      /\ editMode
      /\ ~(pointerType(ev'.ptr) = "touch" /\ Len(pointersRef) >= 2))
       => (/\ selectedIds' = Toggled(selectedIds, ev'.id)
           /\ selectedIds' # {})]_vars

\* a toggle press of card 2 while cards 1 and 2 were selected (the session took
\* the previous selection): card 2 is removed
C13_Witness ==
  /\ PressedEntity("meta") /\ editMode /\ ev.id = 2
  /\ dragRef.mode = "move" /\ dragRef.ids = {1, 2}
  /\ selectedIds = {1}

\* C14 (as claimed): a press that starts a move on an entity of the current
\* selection moves the whole selection; a press that starts a move on an entity
\* outside the selection collapses the selection to that entity and moves it
\* alone. With a modifier key ensureSelectionOnPointerDown adds the entity to
\* the selection instead, and getMoveIds, which reads the selection of the last
\* render, still moves it alone. (Presses while no session is active.)
C14_MoveTargetSet ==
  [][(/\ ev'.type = "downItem" /\ ev'.button = 0 /\ editMode
      /\ dragRef.mode = "none"
      /\ ~(pointerType(ev'.ptr) = "touch" /\ Len(pointersRef) >= 2))
       => (/\ dragRef'.mode = "move"
           /\ dragRef'.pointerId = ev'.ptr
           /\ IF ev'.id \in selectedIds
              THEN dragRef'.ids = selectedIds
              ELSE selectedIds' = {ev'.id} /\ dragRef'.ids = {ev'.id})]_vars

\* C15: in edit mode a pointer-down on the canvas background with a non-select
\* tool armed appends exactly one BoardObject of the tool's kind whose corner is
\* the pointer's world position clamped into the canvas, asks the caller once
\* to set the tool to select, and starts no session: dragRef and the box stay as
\* they were.
C15_OneShotToolPlacement ==
  [][(ev'.type = "downCanvas" /\ editMode /\ tool # "select")
       => (/\ Len(objects') = Len(objects) + 1
           /\ SubSeq(objects', 1, Len(objects)) = objects
           /\ placed' = placed
           /\ LET o == objects'[Len(objects')] IN
              /\ o.kind = tool
              /\ o.x = Max(0, Min(CanvasWidth - o.w, ev'.cx + scroll.left))
              /\ o.y = Max(0, Min(CanvasHeight - o.h, ev'.cy + scroll.top))
              /\ o.x + o.w <= CanvasWidth /\ o.y + o.h <= CanvasHeight
           /\ cb'.objects = 1 /\ cb'.tool = 1 /\ cb'.placed = 0
           /\ dragRef' = dragRef /\ box' = box)]_vars

\* a lane placed near the far corner of the canvas: its corner is clamped
C15_Witness ==
  /\ ev.type = "downCanvas" /\ editMode /\ ev.cx = 2900 /\ ev.cy = 1900
  /\ cb.objects = 1 /\ cb.tool = 1
  /\ Len(objects) = 2 /\ objects[2].kind = "lane"
  /\ objects[2].x = 2400 /\ objects[2].y = 1800
  /\ tool = "select" /\ dragRef.mode = "none" /\ ~box.on

\* C16 (as claimed): after Delete or Backspace in edit mode no entity that was
\* selected, card or board object, is left in its collection or in the
\* selection. The keydown listener deletes board objects only.
C16_DeleteRemovesSelection ==
  (ev.type = "key" /\ ev.key \in {"Delete", "Backspace"} /\ editMode) =>
    \A id \in ev.sel : id \notin placedIds \cup objectIds /\ id \notin selectedIds

\* the ids of an array of entities, in order
IdsOf(list) == [i \in 1..Len(list) |-> list[i].id]

\* C17: the collections change only through their change callback, which gets
\* the whole next array: a pointer-move of a move or resize session keeps the
\* length and the order of both arrays and every entity outside the session's
\* id set; creating an object keeps every earlier object in place; deleting
\* keeps every other object, in order.
C17_CopyOnWrite ==
  [][/\ (cb'.placed = 0 => placed' = placed)
     /\ (cb'.objects = 0 => objects' = objects)
     /\ (ev'.type = "move" /\ cb'.placed + cb'.objects > 0) =>
          /\ dragRef.mode \in {"move", "resize"}
          /\ IdsOf(placed') = IdsOf(placed)
          /\ IdsOf(objects') = IdsOf(objects)
          /\ \A i \in 1..Len(placed) :
               placed[i].id \notin dragRef.ids => placed'[i] = placed[i]
          /\ \A i \in 1..Len(objects) :
               objects[i].id \notin dragRef.ids => objects'[i] = objects[i]
     /\ (ev'.type = "downCanvas" /\ cb'.objects = 1) =>
          (Len(objects') = Len(objects) + 1 /\ SubSeq(objects', 1, Len(objects)) = objects)
     /\ (ev'.type \in {"key", "clickDelete"} /\ cb'.objects = 1) =>
          LET keep == {objects'[i].id : i \in 1..Len(objects')} IN
          objects' = SelectSeq(objects, LAMBDA o : o.id \in keep)]_vars

\* card 1 dragged alone on the board of two cards and a lane: card 2 and the
\* lane are as they were mounted
C17_Witness ==
  /\ ev.type = "move" /\ cb.placed = 1 /\ cb.objects = 1
  /\ dragRef.mode = "move" /\ dragRef.ids = {1}
  /\ Len(placed) = 2 /\ placed[1].id = 1 /\ placed[1].x = 120
  /\ placed[2] = MainBoard.placed[2]
  /\ objects = MainBoard.objects

\* C18: while a session is active, a pointer-move, pointer-up or pointer-cancel
\* of a pointer other than the session's owner leaves the session, the placed
\* items, the board objects and the selection unchanged.
C18_MismatchedPointerFiltered ==
  [][(/\ dragRef.mode # "none"
      /\ ev'.type \in {"move", "up", "cancel"}
      /\ ev'.ptr # dragRef.pointerId)
       => (/\ dragRef' = dragRef
           /\ placed' = placed /\ objects' = objects
           /\ selectedIds' = selectedIds /\ box' = box
           /\ cb' = NoCalls)]_vars

\* a move session that has dragged card 1 received a move of another pointer
C18_Witness ==
  /\ ev.type = "move" /\ dragRef.mode = "move" /\ ev.ptr # dragRef.pointerId
  /\ dragRef.moved /\ dragRef.ids = {1}
  /\ placed[1].x = 120

\* C19 (as claimed): a pointer-cancel of the owner of a box-select session ends
\* the session, removes the box and leaves the selection as it was, whatever
\* the box covers. pointer-cancel is bound to onPointerUp, which selects what
\* the box covers or, for a small box, clears the selection. (No other pointer
\* is down.)
C19_CancelDiscardsBoxSelect ==
  [][(/\ ev'.type = "cancel"
      /\ dragRef.mode = "box"
      /\ ev'.ptr = dragRef.pointerId
      /\ down = {dragRef.pointerId})
       => (/\ dragRef' = NoDrag
           /\ box' = NoBox
           /\ selectedIds' = selectedIds)]_vars

\* C20 (as claimed): a pointer-cancel of the owner of an active move session
\* ends the session as a pointer-up does: the board is idle and no preview
\* remains. The frame-throttled board listens to pointermove and pointerup
\* only, so a cancelled pointer leaves its session and its preview in place.
C20_CancelEndsSession ==
  [][(/\ ev'.type = "hCancel"
      /\ draggingRef.id # NoId
      /\ ev'.ptr = draggingRef.pointerId)
       => (draggingRef' = NoDragging /\ dragPreview' = NoPreview)]_vars

\* the touch pointers that are down
TouchDown == {p \in down : pointerType(p) = "touch"}

\* C21 (as claimed): while two or more touch pointers are down no pointer-move
\* changes a card or an object, a two-finger pan changes nothing but the scroll
\* offset, and no pointer-down starts a move or resize session. Touches are
\* counted only by the canvas handler: a touch that starts a session stops its
\* propagation and is never counted.
C21_TwoFingerPanSuspendsDrag ==
  [][/\ (ev'.type = "move" /\ Cardinality(TouchDown) >= 2)
          => (/\ placed' = placed /\ objects' = objects
              /\ UNCHANGED <<selectedIds, activeId, box, tool>>)
     /\ (ev'.type \in {"downItem", "downPhoto", "downHandle"} /\ Cardinality(TouchDown') >= 2)
          => ~(dragRef'.mode \in {"move", "resize"} /\ dragRef'.pointerId = ev'.ptr)]_vars

\* the horizontal and the vertical displacements a session's owner moves by
DeltaXs == {dl[1] : dl \in Deltas}
DeltaYs == {dl[2] : dl \in Deltas}
\* list `new` is list `old` but for the width and height of entity id, which are
\* functions of the horizontal and of the vertical displacement alone
OnlyResized(old, new, id, o, minW, minH) ==
  /\ Len(new) = Len(old)
  /\ \A i \in 1..Len(old) :
       IF old[i].id # id THEN new[i] = old[i]
       ELSE /\ [new[i] EXCEPT !.w = old[i].w, !.h = old[i].h] = old[i]
            /\ \E dx \in DeltaXs : new[i].w = clamp(o.w + dx, minW, CanvasWidth - o.x)
            /\ \E dy \in DeltaYs : new[i].h = clamp(o.h + dy, minH, CanvasHeight - o.y)

\* C22: a primary-button press of a resize handle starts a resize session of
\* that pointer whose id set is exactly the pressed entity, whatever was
\* selected; a pointer-move of the session's owner changes nothing but that
\* entity's width and height, the width following the horizontal displacement
\* only and the height the vertical one; its position and all other entities
\* stay as they were.
C22_ResizeOneEntity ==
  [][/\ (ev'.type = "downHandle" /\ ev'.button = 0)
          => (/\ dragRef'.mode = "resize" /\ dragRef'.pointerId = ev'.ptr
              /\ dragRef'.ids = {ev'.id}
              /\ UNCHANGED <<placed, objects>>)
     /\ (ev'.type = "move" /\ dragRef.mode = "resize" /\ ev'.ptr = dragRef.pointerId)
          => \E id \in dragRef.ids :
               /\ dragRef.ids = {id}
               /\ IF id \in DOMAIN dragRef.originPlayers
                  THEN /\ OnlyResized(placed, placed', id, dragRef.originPlayers[id], MIN_W, MIN_H)
                       /\ objects' = objects
                  ELSE /\ OnlyResized(objects, objects', id, dragRef.originObjects[id],
                                      OBJ_MIN_W, OBJ_MIN_H)
                       /\ placed' = placed]_vars
\* a lane widened by 2 px at unchanged height, while a card is on the board too
C22_Witness ==
  /\ ev.type = "move" /\ dragRef.mode = "resize" /\ ev.ptr = dragRef.pointerId
  /\ dragRef.ids = {3} /\ selectedIds = {3}
  /\ objectOf(3).w = 602 /\ objectOf(3).h = 200
  /\ objectOf(3).x = 1000 /\ objectOf(3).y = 600

\* C23: every board object is at least OBJ_MIN_W wide and OBJ_MIN_H high (the
\* one minimum the code has for all kinds) and lies inside the canvas, in every
\* state reached from a board whose objects do, by creating, moving and
\* resizing objects.
C23_ObjectGeometry ==
  \A i \in 1..Len(objects) :
    /\ objects[i].w >= OBJ_MIN_W /\ objects[i].h >= OBJ_MIN_H
    /\ objects[i].x >= 0 /\ objects[i].y >= 0
    /\ objects[i].x + objects[i].w <= CanvasWidth
    /\ objects[i].y + objects[i].h <= CanvasHeight
\* an object created in the canvas corner, and the lane resized down to the
\* minimum size
C23_Witness ==
  /\ Len(objects) = 2
  /\ objects[2].x + objects[2].w = CanvasWidth /\ objects[2].y + objects[2].h = CanvasHeight
  /\ ev.type = "move" /\ dragRef.mode = "resize" /\ dragRef.ids = {3}
  /\ objectOf(3).w = OBJ_MIN_W /\ objectOf(3).h = OBJ_MIN_H

\* a box-select session that the step has started
BoxStarted ==
  /\ dragRef'.mode = "box"
  /\ ~(/\ dragRef.mode = "box" /\ dragRef.pointerId = dragRef'.pointerId
       /\ dragRef.startX = dragRef'.startX /\ dragRef.startY = dragRef'.startY)

\* C24 (as claimed): a box-select session starts only with a pointer-down on
\* empty canvas, in edit mode, with the select tool, from a pointer that is not
\* a touch and without meta/ctrl/shift; a touch pointer-down on empty canvas
\* starts no session and clears the selection. With a creation tool armed the
\* touch places an object and selects it.
C24_BoxSelectStart ==
  [][/\ BoxStarted
          => (/\ ev'.type = "downCanvas" /\ dragRef'.pointerId = ev'.ptr
              /\ editMode /\ tool = "select"
              /\ pointerType(ev'.ptr) # "touch" /\ ev'.mod = "none")
     /\ (ev'.type = "downCanvas" /\ pointerType(ev'.ptr) = "touch")
          => (/\ dragRef' = dragRef /\ box' = box
              /\ selectedIds' = {} /\ activeId' = NoId)]_vars

\* C24 (amended): as above, but the touch clears the selection and the active
\* entity unless a creation tool is armed in edit mode.
C24_BoxSelectStartSelectTool ==
  [][/\ BoxStarted
          => (/\ ev'.type = "downCanvas" /\ dragRef'.pointerId = ev'.ptr
              /\ editMode /\ tool = "select"
              /\ pointerType(ev'.ptr) # "touch" /\ ev'.mod = "none")
     /\ (ev'.type = "downCanvas" /\ pointerType(ev'.ptr) = "touch")
          => (/\ dragRef' = dragRef /\ box' = box
              /\ ~(editMode /\ tool # "select") => (selectedIds' = {} /\ activeId' = NoId))]_vars
\* a box-select session of the mouse is on; a finger then pressed empty canvas
\* and started none
C24_Witness ==
  /\ ev.type = "downCanvas" /\ pointerType(ev.ptr) = "touch"
  /\ dragRef.mode = "box" /\ dragRef.pointerId = "m" /\ box.on
  /\ editMode /\ tool = "select" /\ selectedIds = {}

\* C25: a release of the owner of a box-select session whose normalised box is
\* less than 6 px wide and less than 6 px high leaves the selection empty and
\* no entity active, whatever the box touches.
C25_DegenerateBoxClears ==
  (/\ ev.type = "up" /\ ev.ended = "box" /\ ev.box.on
   /\ rectNorm(ev.box.x1, ev.box.y1, ev.box.x2, ev.box.y2).w < 6
   /\ rectNorm(ev.box.x1, ev.box.y1, ev.box.x2, ev.box.y2).h < 6)
    => (selectedIds = {} /\ activeId = NoId)
\* a 2 px wide box along the bottom edge of card 1, which the hit test of a
\* larger box would count as hit
C25_Witness ==
  /\ ev.type = "up" /\ ev.ended = "box" /\ ev.box.on
  /\ rectNorm(ev.box.x1, ev.box.y1, ev.box.x2, ev.box.y2).w = 2
  /\ rectNorm(ev.box.x1, ev.box.y1, ev.box.x2, ev.box.y2).h = 0
  /\ 1 \in boxHits(rectNorm(ev.box.x1, ev.box.y1, ev.box.x2, ev.box.y2))
  /\ selectedIds = {} /\ activeId = NoId

\* C26 (as claimed): at most one animation-frame callback is queued at any
\* time, whatever pointer-moves arrive and whatever sessions start and end
\* between two frames, and a callback that runs during a session shows the
\* position of the session's latest pointer-move. The pending flag lives in
\* the session object, so a session that starts while a callback of an earlier
\* session is queued schedules a second one.
C26_FrameThrottling ==
  [][/\ rafQueued' <= 1
     /\ (ev'.type = "hFrame" /\ draggingRef.id # NoId)
          => dragPreview' = [id |-> draggingRef.id, x |-> draggingRef.nextX,
                             y |-> draggingRef.nextY]]_vars

\* what the page holds now, as persistBoardData is called with it
PageData == [placedPlayers |-> placed, backgroundUrl |-> backgroundUrl]

\* C27: every committed change replaces the save timer and writes nothing, so
\* at most one timer is pending and it carries the latest change; a timer that
\* runs issues the one write of its burst, with the data of the last change,
\* and leaves no timer behind; and after any change the latest data is written
\* once no further change arrives.
C27_AutosaveDebounce ==
  /\ [][/\ Cardinality(timers') <= 1
        /\ ev'.type \in {"placedChange", "backgroundChange"}
             => (/\ persistCalls' = persistCalls
                 /\ timers' = {[id |-> saveTimer', placedPlayers |-> placed',
                                backgroundUrl |-> backgroundUrl']})
        /\ ev'.type = "saveTimeout"
             => (/\ persistCalls' = Append(persistCalls, PageData)
                 /\ timers' = {})]_vars
  /\ (nChanges > 0) ~> (/\ timers = {} /\ persistCalls # << >>
                        /\ persistCalls[Len(persistCalls)] = PageData)
\* a burst of three changes that ended in one write
C27_Witness ==
  /\ ev.type = "saveTimeout" /\ nChanges = 3 /\ Len(persistCalls) = 1
  /\ timers = {} /\ persistCalls[1] = PageData

DefaultedRect(c) ==
  [left |-> c.x, top |-> c.y, right |-> c.x + WidthOf(c), bottom |-> c.y + HeightOf(c)]

\* C29: a card without a stored width or height counts as 260 x 92: the origin
\* snapshot of a session holds that size, a move keeps the card with that size
\* inside the canvas at a position that is a number, and a box-select selects
\* the card exactly when the box meets that rectangle.
C29_MissingSizeDefault ==
  /\ dragRef.mode \in {"move", "resize"} =>
       \A id \in DOMAIN dragRef.originPlayers \cap placedIds :
         /\ dragRef.originPlayers[id].w = WidthOf(cardOf(id))
         /\ dragRef.originPlayers[id].h = HeightOf(cardOf(id))
  /\ \A i \in 1..Len(placed) :
       /\ placed[i].x \in 0..(CanvasWidth - WidthOf(placed[i]))
       /\ placed[i].y \in 0..(CanvasHeight - HeightOf(placed[i]))
  /\ (/\ ev.type = "up" /\ ev.ended = "box" /\ ev.box.on
      /\ ~(/\ rectNorm(ev.box.x1, ev.box.y1, ev.box.x2, ev.box.y2).w < 6
           /\ rectNorm(ev.box.x1, ev.box.y1, ev.box.x2, ev.box.y2).h < 6))
       => \A i \in 1..Len(placed) :
            placed[i].id \in selectedIds
              <=> rectIntersects(DefaultedRect(placed[i]),
                                 rectNorm(ev.box.x1, ev.box.y1, ev.box.x2, ev.box.y2))
\* the card without a stored size was dragged into the far corner, where it
\* stopped 260 x 92 from the canvas edges, and a box that starts right of its
\* left edge and above its top edge selected it
C29_Witness ==
  /\ ev.type = "up" /\ ev.ended = "box"
  /\ cardOf(2).w = NoSize /\ cardOf(2).h = NoSize
  /\ cardOf(2).x = CanvasWidth - DEFAULT_W /\ cardOf(2).y = CanvasHeight - DEFAULT_H
  /\ ev.box.x1 > cardOf(2).x /\ ev.box.y1 < cardOf(2).y
  /\ 2 \in selectedIds

\* C30: for every wheel step with a pointer on the stage, the world point under
\* the pointer, (viewport - offset) / scale, is the same with the new scale and
\* offset as it was with the old ones, also where the scale is held at an end of
\* its range.
C30_NoJumpOnZoom ==
  [][(ev'.type = "wheel" /\ ev'.has)
       => worldOf(ev'.x, ev'.y, offset', scale') = worldOf(ev'.x, ev'.y, offset, scale)]_vars
\* the stage, dragged to (-50, -100), was zoomed in by one step about (100, 50)
C30_Witness ==
  /\ ev.type = "wheel" /\ ev.has /\ ev.x = 100 /\ ev.y = 50
  /\ scale = ZoomFactor
  /\ offset = [x |-> FracOf(-59), y |-> FracOf(-109)]

MoveJustStarted ==
  /\ ev.type = "downItem"
  /\ dragRef.mode = "move" /\ dragRef.pointerId = ev.ptr

\* C32: every entity whose position a move session changes is a member of the
\* selection as it stands after the session's pointer-down, whether the press
\* was plain, with shift or with meta/ctrl. Stated for the first pointer-move
\* of the session, when the selection is still the one the pointer-down left.
C32_MovedAreSelected ==
  [][(MoveJustStarted /\ ev'.type = "move" /\ ev'.ptr = dragRef.pointerId)
       => /\ \A i \in 1..Len(placed) :
               (placed'[i].x # placed[i].x \/ placed'[i].y # placed[i].y)
                 => placed[i].id \in selectedIds
          /\ \A i \in 1..Len(objects) :
               (objects'[i].x # objects[i].x \/ objects'[i].y # objects[i].y)
                 => objects[i].id \in selectedIds]_vars

\* the origin of an entity lies inside the canvas
InBounds(o) ==
  /\ 0 <= o.x /\ o.x + o.w <= CanvasWidth
  /\ 0 <= o.y /\ o.y + o.h <= CanvasHeight

\* C33: after a pointer-move of a move session that brings the pointer back to
\* its start point, every affected entity whose origin lies inside the canvas is
\* exactly at its origin, whatever the earlier moves of the session were.
C33_NoDrift ==
  (SessionMoved /\ dragRef.mode = "move" /\ PointerDx = 0 /\ PointerDy = 0)
    => \A id \in Affected :
         InBounds(OriginOf(id))
           => entityOf(id).x = OriginOf(id).x /\ entityOf(id).y = OriginOf(id).y
\* the pointer is back at its start point after it had moved away (every other
\* displacement pushes the entities against an edge), and card 2, which has no
\* stored size, is at (500, 300) again
C33_Witness ==
  /\ SessionMoved /\ dragRef.mode = "move" /\ PointerDx = 0 /\ PointerDy = 0
  /\ dragRef.moved
  /\ 2 \in dragRef.ids
  /\ cardOf(2).x = 500 /\ cardOf(2).y = 300 /\ OriginOf(2).x = 500

\* C34: a pointer-move never adds an entity to a collection nor removes one: the
\* ids of each array, in order, are the same before and after every
\* pointer-move, also when an entity of the session has been deleted since the
\* session's pointer-down.
C34_NoResurrection ==
  [][ev'.type = "move"
       => IdsOf(placed') = IdsOf(placed) /\ IdsOf(objects') = IdsOf(objects)]_vars
\* the lane was deleted while it was being dragged, and a later pointer-move of
\* the session handed the arrays to the callbacks without it
C34_Witness ==
  /\ ev.type = "move" /\ dragRef.mode = "move" /\ dragRef.pointerId = ev.ptr
  /\ cb.objects = 1
  /\ 3 \in DOMAIN dragRef.originObjects
  /\ 3 \notin objectIds

\* C35: onOpenPlayer is called only by the release of a move session on a
\* single card whose pointer did not move; the release of a resize session,
\* moved or not, never calls it.
C35_OpenOnlyFromMove ==
  (ev.type = "p1Up" /\ cb.open > 0) => (ev.ended = "move" /\ gest.path <= 2)

\* the ids of the tracked touch pointers
Tracked == {pointersRef[i].id : i \in 1..Len(pointersRef)}

\* C36: two-finger mode is active only while at least two touch pointers are
\* tracked; a tracked pointer is a pressed touch pointer, and it is no longer
\* tracked after its pointer-up or pointer-cancel; once no touch pointer is
\* pressed the map is empty and two-finger mode is inactive.
C36_TouchTracking ==
  /\ twoFingerRef.active => Len(pointersRef) >= 2
  /\ Cardinality(Tracked) = Len(pointersRef)
  /\ \A p \in Tracked : pointerType(p) = "touch" /\ p \in down
  /\ ev.type \in {"up", "cancel"} => ev.ptr \notin Tracked
  /\ (\A p \in down : pointerType(p) # "touch")
       => (pointersRef = << >> /\ ~twoFingerRef.active)
\* two fingers scrolled the board; one was cancelled, which ended two-finger
\* mode and left the other one tracked
C36_Witness ==
  /\ ev.type = "cancel" /\ ev.ptr = "t1"
  /\ Tracked = {"t2"} /\ down = {"t2"}
  /\ ~twoFingerRef.active
  /\ scroll # [left |-> 0, top |-> 0]

\* the position a session is claimed to commit: the card's position at the
\* pointer-down when the owner never moved, else the position that keeps the
\* grab point under the last pointer position, clamped to the board
Committed ==
  LET c == gest.card
      w == IF c.w = NoSize THEN H_DEFAULT_W ELSE c.w
      h == IF c.h = NoSize THEN H_DEFAULT_H ELSE c.h
      grabX == (gest.x0 - HBoardRect.left) - c.x
      grabY == (gest.y0 - HBoardRect.top) - c.y
  IN IF ~gest.moved THEN [x |-> c.x, y |-> c.y]
     ELSE [x |-> Max(0, Min(HBoardWidth - w, (gest.lastX - HBoardRect.left) - grabX)),
           y |-> Max(0, Min(HBoardHeight - h, (gest.lastY - HBoardRect.top) - grabY))]

\* C37: the position the release of a session commits is the clamped position
\* of the owner's last pointer-move, whether or not the frame callback of that
\* move has run, and the card's position at the pointer-down when the owner
\* never moved.
C37_CommitLatest ==
  (ev.type = "hUp" /\ ev.ended = "move") =>
    /\ cb.placed = 1
    /\ hCardOf(gest.id).x = Committed.x
    /\ hCardOf(gest.id).y = Committed.y
\* card 1 was dragged by (200, 100) and released while the frame callback of
\* the move was still queued
C37_Witness ==
  /\ ev.type = "hUp" /\ ev.ended = "move"
  /\ gest.id = 1 /\ gest.moved
  /\ gest.lastX = gest.x0 + 200 /\ gest.lastY = gest.y0 + 100
  /\ rafQueued > 0
  /\ hCardOf(1).x = 300 /\ hCardOf(1).y = 200

PageChanges == {"placedChange", "backgroundChange"}

\* C38: when a placed-items change and a background-URL change follow each
\* other, in either order, with no write in between, the one pending write
\* holds the most recent placed-items array and the most recent background URL,
\* and the timer callback writes what the pending write holds.
C38_AutosaveLatest ==
  /\ [][(/\ timers # {}
         /\ ev.type \in PageChanges /\ ev'.type \in PageChanges /\ ev'.type # ev.type)
          => timers' = {[id |-> saveTimer', placedPlayers |-> placed',
                         backgroundUrl |-> backgroundUrl']}]_vars
  /\ [][ev'.type = "saveTimeout"
          => \E t \in timers :
               /\ t.id = ev'.id
               /\ persistCalls' = Append(persistCalls, [placedPlayers |-> t.placedPlayers,
                                                        backgroundUrl |-> t.backgroundUrl])]_vars
\* one change of each kind, then the only write so far: it has the new array
\* and the new URL
C38_Witness ==
  /\ ev.type = "saveTimeout"
  /\ nChanges = 2 /\ Len(persistCalls) = 1 /\ timers = {}
  /\ placed # MainBoard.placed /\ backgroundUrl # ""
  /\ persistCalls[1] = PageData

\* C39: a frame callback that runs while no session is active leaves the
\* preview cleared; the release of a session clears the preview, and a cleared
\* preview is set again only by a pointer-down on a card.
C39_LateFrameHarmless ==
  [][/\ (ev'.type = "hFrame" /\ draggingRef.id = NoId) => dragPreview' = NoPreview
     /\ (ev'.type = "hUp" /\ ev'.ended = "move") => dragPreview' = NoPreview
     /\ (dragPreview = NoPreview /\ dragPreview' # NoPreview) => ev'.type = "hDown"]_vars
\* card 1 was dragged and released at a new position; the frame callback of
\* its last move ran afterwards, and there is no preview
C39_Witness ==
  /\ ev.type = "hFrame"
  /\ draggingRef = NoDragging /\ dragPreview = NoPreview
  /\ down = {}
  /\ hCardOf(1).x # 100

====
